---- MODULE Spec2Model ----
(***************************************************************************)
(* Model of the emergency-call orchestrator (agents/orchestrator.py) and   *)
(* of the four responders it drives (empathy, triage, guidance, dispatch). *)
(*                                                                         *)
(* Representation.                                                         *)
(*  - A text (a user message, a keyword, a reply) is a sequence of words.  *)
(*    `kw in text` of Python is IsIn(kw, text): kw occurs as a contiguous  *)
(*    run of words, where a one-word keyword also matches inside a longer  *)
(*    word (WordInfix lists the pairs that occur in UserMessages).         *)
(*  - A Python dict is a function whose domain is the set of its keys;     *)
(*    d["k"] on a missing key is a KeyError, which the operators below     *)
(*    carry as an explicit exc field.                                      *)
(*  - Floats are integers in hundredths (0.3 is 30).                       *)
(*  - Clock readings (timestamps, response_time) are left out of the       *)
(*    dicts; response_times keeps one entry per measured turn.             *)
(***************************************************************************)
EXTENDS Integers, Sequences, FiniteSets, TLC

VARIABLES
    safety_keywords,   \* EmergencyOrchestrator.safety_keywords
    active_sessions,   \* EmergencyOrchestrator.active_sessions: id -> session dict
    used_ids,          \* the ids uuid4 has handed out so far
    safe_passed,       \* history: per id, the calls the safety gate let through
    faulty_turns,      \* history: the turns so far in which a responder misbehaved
    last_call,         \* history: the last operation, its arguments and the session before it
    result,            \* what the last operation returned or raised
    merge_in,          \* MergeSpec: the agent_responses handed to _combine_agent_responses
    merge_out,         \* MergeSpec: what _combine_agent_responses returned
    tasks              \* ConcurrentSpec: the process_message coroutines the event loop holds

vars == <<safety_keywords, active_sessions, used_ids, safe_passed, faulty_turns, last_call,
          result, merge_in, merge_out, tasks>>

\* ------------------------------------------------------------------ bounds
\* MAX_CONVERSATION_TURNS as configured for the model (the source default is 50).
MaxTurns == 2
\* Number of turns of a behaviour of TurnSpec in which responders raise or fall back.
MaxFaultyTurns == 1
\* ProcessTurn stops being offered trigger messages once safety_triggers is here.
MaxSafetyTriggers == 1
\* Number of process_message coroutines the event loop holds at a time in ConcurrentSpec.
MaxInFlight == 2

\* ------------------------------------------------------------------ texts
NoneVal == "None"

LowerWord(w) ==
    CASE w = "Suicide" -> "suicide"
      [] w = "Someone" -> "someone"
      [] OTHER -> w

lower(text) == [i \in 1..Len(text) |-> LowerWord(text[i])]

\* <<a, b>>: a is a proper substring of the word b.
WordInfix ==
    { <<"conscious", "unconscious">>, <<"breath", "breathing">> }

WordMatches(kw, w) == kw = w \/ <<kw, w>> \in WordInfix

IsIn(kw, text) ==
    IF Len(kw) = 1
    THEN \E i \in 1..Len(text) : WordMatches(kw[1], text[i])
    ELSE \E i \in 0..(Len(text) - Len(kw)) : \A j \in 1..Len(kw) : text[i + j] = kw[j]

\* The user messages the model feeds to process_message.
UserMessages ==
    { <<"thinking", "about", "Suicide">>,
      <<"he", "took", "an", "overdose">>,
      <<"i", "have", "a", "fever">>,
      <<"i", "am", "scared">>,
      <<"Someone", "is", "unconscious", "and", "not", "breathing">> }

Last(seq) == seq[Len(seq)]

RangeOf(s) == { s[i] : i \in 1..Len(s) }

\* [kw for kw in keyword_list if kw.lower() in text_lower], as a sequence in list order
RECURSIVE Matching(_, _)
Matching(keyword_list, text_lower) ==
    IF keyword_list = <<>> THEN <<>>
    ELSE LET kw == Head(keyword_list)
             rest == Matching(Tail(keyword_list), text_lower)
         IN  IF IsIn(lower(kw), text_lower) THEN <<kw>> \o rest ELSE rest

AnyIn(words, text_lower) == \E i \in 1..Len(words) : IsIn(words[i], text_lower)

\* ------------------------------------------------------------------ config
SAFETY_KEYWORDS == << <<"suicide">>, <<"self-harm">>, <<"overdose">> >>

\* config.get("SAFETY_KEYWORDS", []) for the two configs an orchestrator is built from:
\* DevelopmentConfig.__dict__ (backend/main.py, test_system.py), which holds only the
\* attributes DevelopmentConfig itself defines, and a mapping with every Config setting.
ConfiguredSafetyKeywords == { <<>>, SAFETY_KEYWORDS }

max_conversation_turns == MaxTurns

\* ------------------------------------------------------------------ responses
NoExc == "no exception"

\* AgentResponse(...).to_dict()
AgentResponse(message, agent_type, confidence, urgency_level, metadata) ==
    [message |-> message, agent_type |-> agent_type, confidence |-> confidence,
     urgency_level |-> urgency_level, metadata |-> metadata]

Has(d, k) == k \in DOMAIN d

Min(a, b) == IF a <= b THEN a ELSE b

\* ------------------------------------------------------------------ EmpathyAgent
\* What the sentiment analyzer may report for a message (hundredths).
SentimentScores ==
    { [compound |-> 0, pos |-> 0, neg |-> 0],
      [compound |-> -70, pos |-> 0, neg |-> 70] }

classify_emotional_state(sentiment_scores) ==
    IF sentiment_scores.neg > 60 THEN "highly_distressed"
    ELSE IF sentiment_scores.neg > 30 THEN "distressed"
    ELSE IF sentiment_scores.compound < -30 THEN "anxious"
    ELSE IF sentiment_scores.pos > 50 THEN "calm"
    ELSE "neutral"

\* random.choice(list) is one text of that list: the model keeps the list's name.
generate_empathic_response(message, emotional_state, sentiment_score, context) ==
    LET is_first_contact == context.turn_number = 0
        base_response ==
            IF is_first_contact THEN <<"one of calming_phrases">>
            ELSE IF emotional_state \in {"highly_distressed", "distressed"}
                 THEN <<"one of calming_phrases">>
            ELSE IF emotional_state = "anxious" THEN <<"one of validation_phrases">>
            ELSE <<"one of reassurance_phrases">>
        m == lower(message)
        specific ==
            IF IsIn(<<"pain">>, m) THEN <<" I know you're in pain right now.">>
            ELSE IF IsIn(<<"scared">>, m) \/ IsIn(<<"afraid">>, m)
                 THEN <<" It's okay to feel scared.">>
            ELSE IF IsIn(<<"help">>, m) THEN <<" Help is definitely coming.">>
            ELSE <<>>
        breathing ==
            IF emotional_state = "highly_distressed" /\ sentiment_score < -60
            THEN <<" Try to take slow, deep breaths with me.">>
            ELSE <<>>
    IN  base_response \o specific \o breathing

calculate_empathy_score(sentiment_scores) ==
    LET negative_score == sentiment_scores.neg
    IN  IF negative_score > 50 THEN Min(90, 50 + (negative_score * 40) \div 100)
        ELSE IF negative_score > 20 THEN Min(70, 30 + (negative_score * 40) \div 100)
        ELSE 50

\* mode "ok": the try block runs through; "caught": it raises and the agent's own
\* except clause answers with the fallback.
empathy_process_message(message, context, sentiment_scores, mode) ==
    IF mode = "caught"
    THEN AgentResponse(<<"I understand you're in an emergency. Help is on the way. Stay calm.">>,
                       "empathy", 50, "unknown", [error |-> "exception"])
    ELSE LET sentiment_score == sentiment_scores.compound
             emotional_state == classify_emotional_state(sentiment_scores)
         IN  AgentResponse(
                 generate_empathic_response(message, emotional_state, sentiment_score, context),
                 "empathy", 90, context.urgency_level,
                 [sentiment_score |-> sentiment_score,
                  emotional_state |-> emotional_state,
                  empathy_score |-> calculate_empathy_score(sentiment_scores)])

\* context carries no "sentiment_score" key, so context.get("sentiment_score", 0) is 0
empathy_should_activate(context) ==
    \/ context.turn_number = 0
    \/ (IF Has(context, "sentiment_score") THEN context.sentiment_score ELSE 0) < -30
    \/ AnyIn(<< <<"scared">>, <<"afraid">>, <<"worried">>, <<"nervous">>, <<"panic">> >>,
             lower(context.message))

\* ------------------------------------------------------------------ TriageAgent
critical_medical ==
    << <<"unconscious">>, <<"not", "breathing">>, <<"no", "pulse">>, <<"chest", "pain">>,
       <<"heart", "attack">>, <<"stroke">>, <<"seizure">>, <<"severe", "bleeding">>,
       <<"choking">>, <<"overdose">> >>

critical_safety ==
    << <<"fire">>, <<"smoke">>, <<"explosion">>, <<"gun">>, <<"weapon">>, <<"assault">>,
       <<"violence">>, <<"robbery">>, <<"break", "in">>, <<"intruder">>,
       <<"domestic", "violence">> >>

high_priority ==
    << <<"difficulty", "breathing">>, <<"severe", "pain">>, <<"heavy", "bleeding">>,
       <<"broken", "bone">>, <<"car", "accident">>, <<"fall">>, <<"burn">>,
       <<"allergic", "reaction">>, <<"pregnancy">> >>

medium_priority ==
    << <<"moderate", "pain">>, <<"minor", "bleeding">>, <<"nausea">>, <<"fever">>, <<"rash">>,
       <<"anxiety">>, <<"panic", "attack">>, <<"minor", "injury">> >>

triage_questions ==
    [consciousness |-> <<"Is the person conscious and able to respond?">>,
     breathing |-> <<"Is the person breathing normally?">>,
     bleeding |-> <<"Is there any severe bleeding?">>,
     pain_level |-> <<"On a scale of 1-10, how severe is the pain?">>,
     location |-> <<"What is your exact location?">>,
     age |-> <<"What is the person's approximate age?">>,
     medical_history |-> <<"Any known medical conditions or allergies?">>,
     what_happened |-> <<"Can you briefly describe what happened?">>]

protocol_responses ==
    [critical |-> <<"This is a critical emergency. Emergency responders are being dispatched immediately.">>,
     high |-> <<"This requires urgent medical attention. Help is on the way.">>,
     medium |-> <<"Medical assistance is needed. Emergency services will respond promptly.">>,
     low |-> <<"We'll send appropriate help. Please stay on the line.">>]

\* f"{a} {b}"
Spaced(a, b) == a \o <<" ">> \o b

\* <<urgency_level, emergency_type>>
assess_urgency(message) ==
    LET message_lower == lower(message)
        high_priority_found ==
            Matching(high_priority, message_lower)
    IN  IF Matching(critical_medical, message_lower) # <<>> THEN <<"critical", "medical">>
        ELSE IF Matching(critical_safety, message_lower) # <<>> THEN <<"critical", "safety">>
        ELSE IF high_priority_found # <<>>
             THEN <<"high",
                    IF \E i \in 1..Len(high_priority_found) :
                           high_priority_found[i] \in
                               { <<"breathing">>, <<"pain">>, <<"bleeding">>, <<"accident">> }
                    THEN "medical" ELSE "safety">>
        ELSE IF Matching(medium_priority, message_lower) # <<>> THEN <<"medium", "medical">>
        ELSE IF AnyIn(<< <<"police">>, <<"crime">>, <<"theft">> >>, message_lower)
             THEN <<"medium", "police">>
        ELSE IF AnyIn(<< <<"fire">>, <<"smoke">> >>, message_lower) THEN <<"high", "fire">>
        ELSE <<"unknown", "unknown">>

extract_critical_keywords(message) ==
    Matching(critical_medical \o critical_safety \o high_priority, lower(message))

\* <<>> is the empty string: no more critical questions
get_next_critical_question(urgency_level, emergency_type, questions_asked, message) ==
    LET message_lower == lower(message)
        ask(tag, words) == tag \notin questions_asked /\ ~AnyIn(words, message_lower)
    IN  IF urgency_level = "critical"
           /\ ask("consciousness", << <<"conscious">>, <<"awake">>, <<"responding">> >>)
        THEN triage_questions["consciousness"]
        ELSE IF urgency_level = "critical"
                /\ ask("breathing", << <<"breathing">>, <<"breath">>, <<"air">> >>)
        THEN triage_questions["breathing"]
        ELSE IF urgency_level = "critical"
                /\ ask("bleeding", << <<"bleeding">>, <<"blood">> >>)
        THEN triage_questions["bleeding"]
        ELSE IF ask("location", << <<"address">>, <<"street">>, <<"location">>, <<"where">> >>)
        THEN triage_questions["location"]
        ELSE IF "what_happened" \notin questions_asked /\ Len(message) < 5
        THEN triage_questions["what_happened"]
        ELSE IF emergency_type = "medical"
                /\ ask("age", << <<"old">>, <<"age">>, <<"year">> >>)
        THEN triage_questions["age"]
        ELSE IF IsIn(<<"pain">>, message_lower) /\ "pain_level" \notin questions_asked
        THEN triage_questions["pain_level"]
        ELSE <<>>

generate_triage_response(message, urgency_level, emergency_type, context) ==
    LET questions_asked == context.questions_asked
        protocol_message ==
            IF urgency_level \in DOMAIN protocol_responses
            THEN protocol_responses[urgency_level] ELSE <<>>
        next_question ==
            get_next_critical_question(urgency_level, emergency_type, questions_asked, message)
    IN  IF next_question # <<>>
        THEN IF protocol_message # <<>> THEN Spaced(protocol_message, next_question)
             ELSE next_question
        ELSE Spaced(protocol_message, <<"I have enough information to dispatch appropriate help.">>)

\* is_triage_complete that asks for the two basic questions in critical cases only
is_triage_complete_lenient(context) ==
    LET required_questions ==
            IF context.urgency_level = "critical"
            THEN {"location", "what_happened", "consciousness", "breathing"} ELSE {}
    IN  required_questions \subseteq context.questions_asked

is_triage_complete(context) ==
    LET required_questions ==
            {"location", "what_happened"}
            \cup (IF context.urgency_level = "critical"
                  THEN {"consciousness", "breathing"} ELSE {})
    IN  required_questions \subseteq context.questions_asked

calculate_confidence(context) ==
    LET questions_asked == Cardinality(context.questions_asked)
        question_bonus == Min(questions_asked * 15, 60)
        urgency_bonus == IF context.urgency_level # "unknown" THEN 20 ELSE 0
    IN  Min(30 + question_bonus + urgency_bonus, 100)

triage_process_message(message, context, mode) ==
    IF mode = "caught"
    THEN AgentResponse(<<"I need to gather some important information. Are you or someone else injured?">>,
                       "triage", 50, "unknown", [error |-> "exception"])
    ELSE LET assessed == assess_urgency(message)
             urgency_level == assessed[1]
             emergency_type == assessed[2]
         IN  AgentResponse(
                 generate_triage_response(message, urgency_level, emergency_type, context),
                 "triage", calculate_confidence(context), urgency_level,
                 [emergency_type |-> emergency_type,
                  critical_keywords |-> extract_critical_keywords(message),
                  triage_complete |-> is_triage_complete(context),
                  questions_asked |-> context.questions_asked])

triage_should_activate(context) ==
    \/ ~is_triage_complete(context)
    \/ context.urgency_level = "unknown"

\* ------------------------------------------------------------------ GuidanceAgent
guidance_protocols ==
    {"unconscious_not_breathing", "choking", "bleeding", "chest_pain", "stroke", "seizure",
     "burn", "fracture", "allergic_reaction"}

\* the protocols whose text contains the protocol's own name
protocols_naming_themselves == {"bleeding", "seizure", "burn", "fracture"}

keyword_mapping(keyword) ==
    CASE keyword \in { <<"unconscious">>, <<"not", "breathing">> } -> "unconscious_not_breathing"
      [] keyword = <<"choking">> -> "choking"
      [] keyword \in { <<"bleeding">>, <<"severe", "bleeding">> } -> "bleeding"
      [] keyword \in { <<"chest", "pain">>, <<"heart", "attack">> } -> "chest_pain"
      [] keyword = <<"stroke">> -> "stroke"
      [] keyword = <<"seizure">> -> "seizure"
      [] keyword = <<"burn">> -> "burn"
      [] keyword = <<"broken", "bone">> -> "fracture"
      [] keyword = <<"allergic", "reaction">> -> "allergic_reaction"
      [] OTHER -> "unknown"

\* The loop returns at the first mapped keyword of context["critical_keywords"], a list
\* the orchestrator rebuilds with list(set(...)): its order is not determined, so every
\* mapped keyword may come first.
determine_guidance_needed(context) ==
    LET mapped == { keyword_mapping(lower(k)) : k \in RangeOf(context.critical_keywords) } \ {"unknown"}
    IN  IF mapped # {} THEN mapped
        ELSE IF context.urgency_level = "critical" /\ context.emergency_type = "medical"
             THEN {"unconscious_not_breathing"}
        ELSE {"unknown"}

generate_guidance_response(guidance_needed, context) ==
    IF guidance_needed \in guidance_protocols
    THEN <<"Here's what you need to do right now: ", guidance_needed,
           " Continue until emergency responders arrive.">>
    ELSE IF context.urgency_level = "critical"
         THEN <<"Keep the person as comfortable as possible. (...) Emergency responders are on their way.">>
    ELSE IF context.urgency_level = "high"
         THEN <<"Try to keep the person calm and comfortable. (...) Help is coming soon.">>
    ELSE <<"Stay with the person and keep them comfortable until help arrives. (...)">>

guidance_process_message(message, context, guidance_needed, mode) ==
    IF mode = "caught"
    THEN AgentResponse(<<"Let me provide some guidance until help arrives. Ensure that everyone stays safe.">>,
                       "guidance", 50, "unknown", [error |-> "exception"])
    ELSE AgentResponse(generate_guidance_response(guidance_needed, context),
                       "guidance", 95, context.urgency_level,
                       [guidance_needed |-> guidance_needed,
                        guidance_provided |-> guidance_needed \in protocols_naming_themselves])

guidance_should_activate(context) ==
    \/ context.urgency_level \in {"critical", "high"}
    \/ \E keyword \in { <<"bleeding">>, <<"choking">>, <<"unconscious">>, <<"chest", "pain">>,
                        <<"seizure">> } : keyword \in RangeOf(context.critical_keywords)

\* ------------------------------------------------------------------ DispatchAgent
service_mapping(emergency_type) ==
    CASE emergency_type = "medical" -> "EMS"
      [] emergency_type = "fire" -> "Fire Department"
      [] emergency_type \in {"police", "safety"} -> "Police"
      [] OTHER -> "EMS"

priority_mapping(urgency_level) ==
    CASE urgency_level = "critical" -> "Priority 1"
      [] urgency_level = "high" -> "Priority 2"
      [] urgency_level = "low" -> "Priority 4"
      [] OTHER -> "Priority 3"

\* ready_to_dispatch as it is once triage completion is not asked for
ready_to_dispatch_without_triage(context) ==
    LET has_basic_info ==
            context.urgency_level # "unknown" /\ context.emergency_type # "unknown"
        has_location ==
            \/ context.address # NoneVal
            \/ (context.latitude # NoneVal /\ context.longitude # NoneVal)
            \/ "location" \in context.questions_asked
    IN  has_basic_info /\ has_location

ready_to_dispatch(context) ==
    LET has_basic_info ==
            context.urgency_level # "unknown" /\ context.emergency_type # "unknown"
        has_location ==
            \/ context.address # NoneVal
            \/ (context.latitude # NoneVal /\ context.longitude # NoneVal)
            \/ "location" \in context.questions_asked
        triage_complete == context.triage_complete
    IN  has_basic_info /\ has_location /\ triage_complete

prepare_dispatch_data(context) ==
    [emergency_id |-> context.session_id,
     caller_phone |-> context.caller_phone,
     emergency_type |-> context.emergency_type,
     urgency_level |-> context.urgency_level,
     priority |-> priority_mapping(context.urgency_level),
     service_needed |-> service_mapping(context.emergency_type),
     address |-> context.address,
     latitude |-> context.latitude,
     longitude |-> context.longitude,
     critical_keywords |-> context.critical_keywords]

\* REAL_DISPATCH_ENABLED is False in Config and by default
real_dispatch_enabled == FALSE

mock_dispatch(dispatch_data) ==
    [success |-> TRUE,
     service |-> dispatch_data.service_needed,
     priority |-> dispatch_data.priority,
     reference_id |-> "EMG-<date>-<hash of emergency_id>",
     estimated_arrival |-> "8-12 minutes"]

send_to_dispatch(dispatch_data) ==
    IF real_dispatch_enabled
    THEN [success |-> FALSE, reason |-> "Real dispatch not configured"]
    ELSE mock_dispatch(dispatch_data)

dispatch_process_message(message, context, mode) ==
    IF mode = "caught"
    THEN AgentResponse(<<"Unable to automatically dispatch. Please call 911 directly.">>,
                       "dispatch", 10, "unknown", [error |-> "exception"])
    ELSE IF ~ready_to_dispatch(context)
    THEN AgentResponse(<<"Still gathering information before dispatch. Please continue providing details.">>,
                       "dispatch", 30, context.urgency_level,
                       [dispatch_attempted |-> FALSE, reason |-> "Insufficient information"])
    ELSE LET dispatch_result == send_to_dispatch(prepare_dispatch_data(context))
         IN  IF dispatch_result.success
             THEN AgentResponse(
                      <<"Emergency services have been notified. ", dispatch_result.service,
                        " is being dispatched to your location. Reference number: ",
                        dispatch_result.reference_id>>,
                      "dispatch", 95, context.urgency_level,
                      [dispatch_attempted |-> TRUE, dispatch_successful |-> TRUE,
                       reference_id |-> dispatch_result.reference_id,
                       service_type |-> dispatch_result.service])
             ELSE AgentResponse(
                      <<"There was an issue contacting emergency services. Please call 911 directly if possible.">>,
                      "dispatch", 20, context.urgency_level,
                      [dispatch_attempted |-> TRUE, dispatch_successful |-> FALSE,
                       reference_id |-> NoneVal, service_type |-> NoneVal])

dispatch_should_activate(context) ==
    \/ ready_to_dispatch(context)
    \/ context.urgency_level = "critical"

\* ------------------------------------------------------------------ EmergencyOrchestrator
AgentNames == {"empathy", "triage", "guidance", "dispatch"}

\* start_session: caller_info.get(...) per field, None when caller_info is None or lacks it
\* start_session(None): every caller_info.get falls back to None
AnonymousCaller ==
    [phone |-> NoneVal, latitude |-> NoneVal, longitude |-> NoneVal, address |-> NoneVal]

CallerInfos ==
    { AnonymousCaller,
      [phone |-> "123-456-7890", latitude |-> NoneVal, longitude |-> NoneVal,
       address |-> "123 Main St"] }

new_session(session_id, caller_info) ==
    [session_id |-> session_id,
     caller_phone |-> caller_info.phone,
     latitude |-> caller_info.latitude,
     longitude |-> caller_info.longitude,
     address |-> caller_info.address,
     turn_number |-> 0,
     conversation_history |-> <<>>,
     questions_asked |-> {},
     urgency_level |-> "unknown",
     emergency_type |-> "unknown",
     critical_keywords |-> <<>>,
     triage_complete |-> FALSE,
     dispatch_attempted |-> FALSE,
     dispatch_successful |-> FALSE,
     empathy_score |-> 0,
     sentiment_scores |-> <<>>,
     response_times |-> <<>>,
     agent_activations |-> <<>>,
     safety_triggers |-> 0,
     profanity_detected |-> FALSE,
     loop_breaker_active |-> FALSE]

build_context(session, current_message) ==
    [session_id |-> session.session_id,
     turn_number |-> session.turn_number,
     message |-> current_message,
     conversation_history |-> session.conversation_history,
     questions_asked |-> session.questions_asked,
     urgency_level |-> session.urgency_level,
     emergency_type |-> session.emergency_type,
     critical_keywords |-> session.critical_keywords,
     triage_complete |-> session.triage_complete,
     empathy_score |-> session.empathy_score,
     address |-> session.address,
     latitude |-> session.latitude,
     longitude |-> session.longitude,
     caller_phone |-> session.caller_phone]

SelfHarmOutcome(safety_triggers) ==
    [message |-> <<"I'm very concerned about what you've shared. Please call the National Suicide Prevention Lifeline at 988 (...)">>,
     agent_type |-> "safety",
     confidence |-> 100,
     urgency_level |-> "critical",
     metadata |-> [blocked |-> TRUE, safety_trigger |-> TRUE,
                   trigger_keywords |-> safety_triggers]]

LoopBreakerOutcome ==
    [message |-> <<"We've been talking for a while. Let me connect you directly with emergency services (...)">>,
     agent_type |-> "safety",
     confidence |-> 100,
     urgency_level |-> "high",
     metadata |-> [blocked |-> TRUE, loop_breaker |-> TRUE]]

\* perform_safety_checks that counts a trigger only when it blocks
perform_safety_checks_uncounted(message, session) ==
    LET message_lower == lower(message)
        safety_triggers == Matching(safety_keywords, message_lower)
    IN  IF safety_triggers # <<>>
           /\ (<<"suicide">> \in RangeOf(safety_triggers)
               \/ <<"self-harm">> \in RangeOf(safety_triggers))
        THEN [ret |-> SelfHarmOutcome(safety_triggers),
              session |-> [session EXCEPT !.safety_triggers = @ + 1]]
        ELSE IF session.turn_number >= max_conversation_turns
        THEN [ret |-> LoopBreakerOutcome,
              session |-> [session EXCEPT !.loop_breaker_active = TRUE]]
        ELSE [ret |-> [blocked |-> FALSE], session |-> session]

\* perform_safety_checks with a self-harm branch that clears loop_breaker_active
perform_safety_checks_clearing(message, session) ==
    LET message_lower == lower(message)
        safety_triggers == Matching(safety_keywords, message_lower)
        counted == IF safety_triggers # <<>>
                   THEN [session EXCEPT !.safety_triggers = @ + 1]
                   ELSE session
    IN  IF safety_triggers # <<>>
           /\ (<<"suicide">> \in RangeOf(safety_triggers)
               \/ <<"self-harm">> \in RangeOf(safety_triggers))
        THEN [ret |-> SelfHarmOutcome(safety_triggers),
              session |-> [counted EXCEPT !.loop_breaker_active = FALSE]]
        ELSE IF counted.turn_number >= max_conversation_turns
        THEN [ret |-> LoopBreakerOutcome,
              session |-> [counted EXCEPT !.loop_breaker_active = TRUE]]
        ELSE [ret |-> [blocked |-> FALSE], session |-> counted]

\* perform_safety_checks that stops the conversation one turn late
perform_safety_checks_late(message, session) ==
    LET message_lower == lower(message)
        safety_triggers == Matching(safety_keywords, message_lower)
        counted == IF safety_triggers # <<>>
                   THEN [session EXCEPT !.safety_triggers = @ + 1]
                   ELSE session
    IN  IF safety_triggers # <<>>
           /\ (<<"suicide">> \in RangeOf(safety_triggers)
               \/ <<"self-harm">> \in RangeOf(safety_triggers))
        THEN [ret |-> SelfHarmOutcome(safety_triggers), session |-> counted]
        ELSE IF counted.turn_number > max_conversation_turns
        THEN [ret |-> LoopBreakerOutcome,
              session |-> [counted EXCEPT !.loop_breaker_active = TRUE]]
        ELSE [ret |-> [blocked |-> FALSE], session |-> counted]

\* The dict returned and the session as the check leaves it.
perform_safety_checks(message, session) ==
    LET message_lower == lower(message)
        safety_triggers == Matching(safety_keywords, message_lower)
        counted == IF safety_triggers # <<>>
                   THEN [session EXCEPT !.safety_triggers = @ + 1]
                   ELSE session
    IN  IF safety_triggers # <<>>
           /\ (<<"suicide">> \in RangeOf(safety_triggers)
               \/ <<"self-harm">> \in RangeOf(safety_triggers))
        THEN [ret |-> SelfHarmOutcome(safety_triggers), session |-> counted]
        ELSE IF counted.turn_number >= max_conversation_turns
        THEN [ret |-> LoopBreakerOutcome,
              session |-> [counted EXCEPT !.loop_breaker_active = TRUE]]
        ELSE [ret |-> [blocked |-> FALSE], session |-> counted]

\* start_turn that keeps only the record of the turn it starts
start_turn_restarting(session, user_message) ==
    LET turn == session.turn_number + 1
    IN  [session EXCEPT
            !.turn_number = turn,
            !.conversation_history = <<[turn |-> turn, user_message |-> user_message]>>]

\* start_turn recording the turn without storing the counter
start_turn_not_counting(session, user_message) ==
    LET turn == session.turn_number + 1
    IN  [session EXCEPT
            !.conversation_history =
                Append(@, [turn |-> turn, user_message |-> user_message])]

\* lines 88-93: the turn counter and the new turn record
start_turn(session, user_message) ==
    LET turn == session.turn_number + 1
    IN  [session EXCEPT
            !.turn_number = turn,
            !.conversation_history =
                Append(@, [turn |-> turn, user_message |-> user_message])]

\* determine_active_agents that puts the empathy responder in front of every selection
determine_active_agents_with_support(message, session) ==
    LET context == build_context(session, message)
        activated ==
            <<"empathy">>
            \o (IF empathy_should_activate(context) THEN <<"empathy">> ELSE <<>>)
            \o (IF triage_should_activate(context) THEN <<"triage">> ELSE <<>>)
            \o (IF guidance_should_activate(context) THEN <<"guidance">> ELSE <<>>)
            \o (IF dispatch_should_activate(context) THEN <<"dispatch">> ELSE <<>>)
    IN  [active_agents |-> activated,
         session |-> [session EXCEPT
                         !.agent_activations =
                             Append(@, [turn |-> session.turn_number,
                                        agents |-> activated])]]

\* determine_active_agents on a snapshot that already carries the urgency the triage
\* responder finds in the message of this turn
determine_active_agents_assessing(message, session) ==
    LET assessed == IF assess_urgency(message)[1] # "unknown"
                    THEN [session EXCEPT !.urgency_level = assess_urgency(message)[1]]
                    ELSE session
        context == build_context(assessed, message)
        activated ==
            (IF empathy_should_activate(context) THEN <<"empathy">> ELSE <<>>)
            \o (IF triage_should_activate(context) THEN <<"triage">> ELSE <<>>)
            \o (IF guidance_should_activate(context) THEN <<"guidance">> ELSE <<>>)
            \o (IF dispatch_should_activate(context) THEN <<"dispatch">> ELSE <<>>)
        active_agents ==
            IF activated # <<>> THEN activated
            ELSE IF session.turn_number = 1 THEN <<"empathy", "triage">>
            ELSE <<"triage">>
    IN  [active_agents |-> active_agents,
         session |-> [session EXCEPT
                         !.agent_activations =
                             Append(@, [turn |-> session.turn_number,
                                        agents |-> active_agents])]]

\* determine_active_agents that returns its selection without writing it to the log
determine_active_agents_unlogged(message, session) ==
    LET context == build_context(session, message)
        activated ==
            (IF empathy_should_activate(context) THEN <<"empathy">> ELSE <<>>)
            \o (IF triage_should_activate(context) THEN <<"triage">> ELSE <<>>)
            \o (IF guidance_should_activate(context) THEN <<"guidance">> ELSE <<>>)
            \o (IF dispatch_should_activate(context) THEN <<"dispatch">> ELSE <<>>)
        active_agents ==
            IF activated # <<>> THEN activated
            ELSE IF session.turn_number = 1 THEN <<"empathy", "triage">>
            ELSE <<"triage">>
    IN  [active_agents |-> active_agents, session |-> session]

determine_active_agents(message, session) ==
    LET context == build_context(session, message)
        activated ==
            (IF empathy_should_activate(context) THEN <<"empathy">> ELSE <<>>)
            \o (IF triage_should_activate(context) THEN <<"triage">> ELSE <<>>)
            \o (IF guidance_should_activate(context) THEN <<"guidance">> ELSE <<>>)
            \o (IF dispatch_should_activate(context) THEN <<"dispatch">> ELSE <<>>)
        active_agents ==
            IF activated # <<>> THEN activated
            ELSE IF session.turn_number = 1 THEN <<"empathy", "triage">>
            ELSE <<"triage">>
    IN  [active_agents |-> active_agents,
         session |-> [session EXCEPT
                         !.agent_activations =
                             Append(@, [turn |-> session.turn_number,
                                        agents |-> active_agents])]]

\* the except clause of _process_through_agents
ErrorPlaceholder(agent_name) ==
    [message |-> <<"Error in ", agent_name, " processing">>,
     agent_type |-> agent_name,
     confidence |-> 10,
     metadata |-> [error |-> "exception"]]

\* What a responder's process_message may do when awaited: run through ("ok"), raise
\* inside its try block and answer with its fallback ("caught"), or raise to the caller.
Modes == {"ok", "caught", "raise"}

\* process_through_agents without the except clause's placeholder: a responder that
\* raises leaves no entry
process_through_agents_dropping(message, session, active_agents, inp) ==
    LET context == build_context(session, message)
        respond(agent_name) ==
            CASE agent_name = "empathy" ->
                     empathy_process_message(message, context, inp.sentiment_scores,
                                             inp.modes[agent_name])
              [] agent_name = "triage" ->
                     triage_process_message(message, context, inp.modes[agent_name])
              [] agent_name = "guidance" ->
                     guidance_process_message(message, context, inp.guidance_needed,
                                              inp.modes[agent_name])
              [] agent_name = "dispatch" ->
                     dispatch_process_message(message, context, inp.modes[agent_name])
    IN  [agent_name \in { a \in RangeOf(active_agents) : inp.modes[a] # "raise" } |->
            respond(agent_name)]

\* inp.modes[a]: how responder a behaves; inp.sentiment_scores: what the sentiment analyzer
\* reports; inp.guidance_needed: the protocol the guidance loop meets first.
process_through_agents(message, session, active_agents, inp) ==
    LET context == build_context(session, message)
        respond(agent_name) ==
            CASE agent_name = "empathy" ->
                     empathy_process_message(message, context, inp.sentiment_scores,
                                             inp.modes[agent_name])
              [] agent_name = "triage" ->
                     triage_process_message(message, context, inp.modes[agent_name])
              [] agent_name = "guidance" ->
                     guidance_process_message(message, context, inp.guidance_needed,
                                              inp.modes[agent_name])
              [] agent_name = "dispatch" ->
                     dispatch_process_message(message, context, inp.modes[agent_name])
    IN  [agent_name \in RangeOf(active_agents) |->
            IF inp.modes[agent_name] = "raise"
            THEN ErrorPlaceholder(agent_name)
            ELSE respond(agent_name)]

\* priority_order with its first two entries exchanged
priority_order_guidance_first == <<"guidance", "dispatch", "triage", "empathy">>

\* Priority order: dispatch > guidance > triage > empathy
priority_order == <<"dispatch", "guidance", "triage", "empathy">>

\* the order in which _process_through_agents inserts keys
insertion_order == <<"empathy", "triage", "guidance", "dispatch">>

RECURSIVE FirstPresent(_, _)
FirstPresent(order, keys) ==
    IF order = <<>> THEN NoneVal
    ELSE IF Head(order) \in keys THEN Head(order)
    ELSE FirstPresent(Tail(order), keys)

\* lines 272-283
select_primary_agent(agent_responses) ==
    LET by_priority == FirstPresent(priority_order, DOMAIN agent_responses)
    IN  IF by_priority # NoneVal THEN by_priority
        ELSE FirstPresent(insertion_order, DOMAIN agent_responses)

\* combined_message putting the empathy message after the primary's
combined_message_appending(primary_agent, agent_responses) ==
    IF primary_agent # "empathy" /\ "empathy" \in DOMAIN agent_responses
    THEN Spaced(agent_responses[primary_agent].message, agent_responses["empathy"].message)
    ELSE agent_responses[primary_agent].message

\* lines 287-291: the message of the primary response after the empathy rule
combined_message(primary_agent, agent_responses) ==
    IF primary_agent # "empathy" /\ "empathy" \in DOMAIN agent_responses
    THEN Spaced(agent_responses["empathy"].message, agent_responses[primary_agent].message)
    ELSE agent_responses[primary_agent].message

metadata_key(agent_type) ==
    CASE agent_type = "empathy" -> "empathy_metadata"
      [] agent_type = "triage" -> "triage_metadata"
      [] agent_type = "guidance" -> "guidance_metadata"
      [] agent_type = "dispatch" -> "dispatch_metadata"

\* combined_metadata holds the primary's own metadata dict, the dict that then receives
\* "all_agents": that entry refers back to the mapping it is in.
SelfReference == "<the all_agents mapping this entry is in>"

\* lines 293-298
combined_metadata(primary_agent, agent_responses) ==
    [k \in { metadata_key(a) : a \in DOMAIN agent_responses } |->
        LET a == CHOOSE a \in DOMAIN agent_responses : metadata_key(a) = k
            metadata == agent_responses[a].metadata
        IN  IF a = primary_agent
            THEN [all_agents |-> SelfReference] @@ metadata
            ELSE metadata]

\* final_response: the dict returned; agent_responses: the mapping as the call leaves it
\* (the primary response is modified in place and is the dict returned).
combine_agent_responses(agent_responses) ==
    IF DOMAIN agent_responses = {}
    THEN [final_response |->
              [message |-> <<"I'm here to help. Can you tell me about the emergency?">>,
               agent_type |-> "system", confidence |-> 50, urgency_level |-> "unknown"],
          agent_responses |-> agent_responses]
    ELSE LET primary_agent == select_primary_agent(agent_responses)
             primary_response ==
                 [agent_responses[primary_agent] EXCEPT
                     !.message = combined_message(primary_agent, agent_responses),
                     !.metadata =
                         [all_agents |-> combined_metadata(primary_agent, agent_responses)]
                         @@ @]
         IN  [final_response |-> primary_response,
              agent_responses |->
                  [agent_responses EXCEPT ![primary_agent] = primary_response]]

\* lines 305-321. triage_response.get("urgency_level") is None for a response without
\* the key; None is not "unknown", and triage_response["urgency_level"] then raises
\* KeyError before anything is written. "unknown" is a non-empty string, so
\* metadata.get("emergency_type") holds for it.
triage_update_raises(agent_responses) ==
    "triage" \in DOMAIN agent_responses /\ ~Has(agent_responses["triage"], "urgency_level")

\* lines 310-311 without the test for "unknown"
update_urgency_level_always(current, triage_response) ==
    triage_response.urgency_level

update_urgency_level(current, triage_response) ==
    IF triage_response.urgency_level # "unknown"
    THEN triage_response.urgency_level ELSE current

\* list(set(keywords)): each keyword once. The order of the list Python builds is not
\* determined; the model keeps the order of first occurrence and the readers of the list
\* (determine_guidance_needed, guidance_should_activate) look at its elements only.
RECURSIVE remove_duplicates(_)
remove_duplicates(keywords) ==
    IF keywords = <<>> THEN <<>>
    ELSE LET rest == remove_duplicates(SubSeq(keywords, 1, Len(keywords) - 1))
         IN  IF Last(keywords) \in RangeOf(rest) THEN rest
             ELSE Append(rest, Last(keywords))

\* lines 316-317 without the list(set(...)) of line 318
update_critical_keywords_extending(keywords, metadata) ==
    IF Has(metadata, "critical_keywords") /\ metadata.critical_keywords # <<>>
    THEN keywords \o metadata.critical_keywords
    ELSE keywords

\* lines 316-318
update_critical_keywords(keywords, metadata) ==
    IF Has(metadata, "critical_keywords") /\ metadata.critical_keywords # <<>>
    THEN remove_duplicates(keywords \o metadata.critical_keywords)
    ELSE keywords

update_from_triage(session, agent_responses) ==
    IF "triage" \notin DOMAIN agent_responses THEN session
    ELSE [session EXCEPT
            !.urgency_level = update_urgency_level(@, agent_responses["triage"]),
            !.emergency_type =
                IF Has(agent_responses["triage"].metadata, "emergency_type")
                THEN agent_responses["triage"].metadata.emergency_type ELSE @,
            !.critical_keywords =
                update_critical_keywords(@, agent_responses["triage"].metadata),
            !.triage_complete =
                IF Has(agent_responses["triage"].metadata, "triage_complete")
                   /\ agent_responses["triage"].metadata.triage_complete
                THEN TRUE ELSE @]

\* lines 323-332
update_from_dispatch(session, agent_responses) ==
    IF "dispatch" \notin DOMAIN agent_responses THEN session
    ELSE [session EXCEPT
            !.dispatch_attempted =
                IF Has(agent_responses["dispatch"].metadata, "dispatch_attempted")
                   /\ agent_responses["dispatch"].metadata.dispatch_attempted
                THEN TRUE ELSE @,
            !.dispatch_successful =
                IF Has(agent_responses["dispatch"].metadata, "dispatch_successful")
                   /\ agent_responses["dispatch"].metadata.dispatch_successful
                THEN TRUE ELSE @]

\* lines 334-338
update_from_empathy(session, agent_responses) ==
    IF "empathy" \notin DOMAIN agent_responses THEN session
    ELSE [session EXCEPT
            !.empathy_score =
                IF Has(agent_responses["empathy"].metadata, "empathy_score")
                   /\ agent_responses["empathy"].metadata.empathy_score # 0
                THEN agent_responses["empathy"].metadata.empathy_score ELSE @]

update_session_state(session, agent_responses) ==
    IF triage_update_raises(agent_responses)
    THEN [session |-> session, exc |-> "KeyError: 'urgency_level'"]
    ELSE [session |->
              update_from_empathy(
                  update_from_dispatch(update_from_triage(session, agent_responses),
                                       agent_responses),
                  agent_responses),
          exc |-> NoExc]

\* the except clause of process_message
TechnicalDifficulties(e) ==
    [message |-> <<"I'm experiencing technical difficulties. Please call 911 directly if this is an emergency.">>,
     agent_type |-> "system",
     confidence |-> 10,
     urgency_level |-> "unknown",
     metadata |-> [error |-> e]]

\* lines 107-112: the reply fields of the last turn record, and the processing time
record_reply(session, final_response) ==
    [session EXCEPT
        !.conversation_history[Len(session.conversation_history)] =
            [agent_response |-> final_response.message,
             agent_type |-> final_response.agent_type] @@ @,
        !.response_times = Append(@, "processing_time")]

turn_result(updated, final_response) ==
    [session |-> updated.session, ret |-> final_response, exc |-> updated.exc]

\* lines 106-119
finish_turn(session, combined) ==
    turn_result(update_session_state(record_reply(session, combined.final_response),
                                     combined.agent_responses),
                combined.final_response)

\* lines 98-119
run_selected(selected, user_message, inp) ==
    finish_turn(selected.session,
                combine_agent_responses(
                    process_through_agents(user_message, selected.session,
                                           selected.active_agents, inp)))

\* lines 87-119, after the safety check let the message through
run_turn(session, user_message, inp) ==
    run_selected(determine_active_agents(user_message, start_turn(session, user_message)),
                 user_message, inp)

\* after_safety_check for a process_message that records the turn before it looks at
\* the outcome of the safety check
after_safety_check_recording(safety_check, user_message, inp) ==
    IF ~Has(safety_check.ret, "blocked")
    THEN [session |-> start_turn(safety_check.session, user_message),
          ret |-> safety_check.ret, exc |-> "KeyError: 'blocked'"]
    ELSE IF safety_check.ret.blocked
    THEN [session |-> start_turn(safety_check.session, user_message),
          ret |-> safety_check.ret, exc |-> NoExc]
    ELSE run_turn(safety_check.session, user_message, inp)

\* lines 84-119. safety_check["blocked"] raises KeyError for a dict without that key.
after_safety_check(safety_check, user_message, inp) ==
    IF ~Has(safety_check.ret, "blocked")
    THEN [session |-> safety_check.session, ret |-> safety_check.ret,
          exc |-> "KeyError: 'blocked'"]
    ELSE IF safety_check.ret.blocked
    THEN [session |-> safety_check.session, ret |-> safety_check.ret, exc |-> NoExc]
    ELSE run_turn(safety_check.session, user_message, inp)

\* the try block of process_message: exc is the exception that leaves it, if any
process_message_try(session, user_message, inp) ==
    after_safety_check(perform_safety_checks(user_message, session), user_message, inp)

\* catch_exception for an except clause that names ValueError only
catch_exception_value_error(tried) ==
    IF tried.exc = "ValueError"
    THEN [session |-> tried.session, ret |-> TechnicalDifficulties(tried.exc),
          exc |-> NoExc]
    ELSE [session |-> tried.session, ret |-> tried.ret, exc |-> tried.exc]

\* lines 121-129: except Exception catches whatever left the try block; exc is what
\* reaches the caller
catch_exception(tried) ==
    IF tried.exc # NoExc
    THEN [session |-> tried.session, ret |-> TechnicalDifficulties(tried.exc),
          exc |-> NoExc]
    ELSE [session |-> tried.session, ret |-> tried.ret, exc |-> NoExc]

\* process_message for a session of active_sessions: the session as the call leaves it,
\* the dict it returns and the exception it raises, if any.
process_message(session, user_message, inp) ==
    catch_exception(process_message_try(session, user_message, inp))

get_session_status(session) ==
    [session_id |-> session.session_id,
     turn_number |-> session.turn_number,
     urgency_level |-> session.urgency_level,
     emergency_type |-> session.emergency_type,
     triage_complete |-> session.triage_complete,
     dispatch_attempted |-> session.dispatch_attempted,
     dispatch_successful |-> session.dispatch_successful,
     empathy_score |-> session.empathy_score,
     avg_response_time |->
         IF session.response_times # <<>> THEN "mean of response_times" ELSE "0"]

end_session_summary(session) ==
    [total_duration |-> "end_time - start_time", total_turns |-> session.turn_number]
    @@ get_session_status(session)

\* ------------------------------------------------------------------ state machine
\* A slot of the event loop that holds no process_message coroutine.
NoTask == [pc |-> "idle"]
TaskIds == 1..MaxInFlight

NoSession == [absent |-> TRUE]
NoModes == [a \in {} |-> "ok"]
NoMerge == [absent |-> TRUE]
NeutralSentiment == [compound |-> 0, pos |-> 0, neg |-> 0]

Returned(value) == [exc |-> NoExc, value |-> value]
Raised(exc) == [exc |-> exc, value |-> [error |-> "Session not found"]]

\* The safety gate answered with one of its blocking outcomes.
IsBlockingOutcome(outcome) ==
    Has(outcome, "metadata") /\ Has(outcome.metadata, "blocked") /\ outcome.metadata.blocked

\* The modes a faulty turn may meet: some of the selected responders raise, or one of
\* them falls back.
FaultyModes(active) ==
    ([active -> {"ok", "raise"}] \ [active -> {"ok"}])
    \cup { m \in [active -> {"ok", "caught"}] :
             Cardinality({ a \in active : m[a] = "caught" }) = 1 }

\* The behaviours of the responders and of the libraries they call that one turn may meet,
\* the selected responders behaving as one of modes says.
InputsFor(active, context, modes) ==
    { [modes |-> m, sentiment_scores |-> sc, guidance_needed |-> g] :
        m \in modes,
        sc \in (IF "empathy" \in active THEN SentimentScores ELSE {NeutralSentiment}),
        g \in (IF "guidance" \in active THEN determine_guidance_needed(context)
               ELSE {"unknown"}) }

TurnModes(active, faulty) ==
    IF faulty THEN FaultyModes(active) ELSE [active -> {"ok"}]

InputsForSelected(selected, user_message, faulty) ==
    InputsFor(RangeOf(selected.active_agents),
              build_context(selected.session, user_message),
              TurnModes(RangeOf(selected.active_agents), faulty))

InputsAfterCheck(safety_check, user_message, faulty) ==
    IF IsBlockingOutcome(safety_check.ret)
    THEN { [modes |-> NoModes, sentiment_scores |-> NeutralSentiment,
            guidance_needed |-> "unknown"] }
    ELSE InputsForSelected(
             determine_active_agents(user_message,
                                     start_turn(safety_check.session, user_message)),
             user_message, faulty)

TurnInputs(session, user_message, faulty) ==
    InputsAfterCheck(perform_safety_checks(user_message, session), user_message, faulty)

Call(op, session_id, message, modes) ==
    [op |-> op, session_id |-> session_id, message |-> message, modes |-> modes,
     found |-> session_id \in DOMAIN active_sessions,
     before |-> IF session_id \in DOMAIN active_sessions
                THEN active_sessions[session_id] ELSE NoSession]

\* The ids uuid4 hands out in a behaviour of Spec.
SessionIds == {"sid-1"}

\* The ids uuid4 hands out in a behaviour of StoreSpec.
StoreSessionIds == {"sid-1", "sid-2"}

Init ==
    /\ safety_keywords \in ConfiguredSafetyKeywords
    /\ active_sessions = [i \in {} |-> NoSession]
    /\ used_ids = {}
    /\ safe_passed = [i \in StoreSessionIds |-> 0]
    /\ faulty_turns = 0
    /\ last_call = [op |-> "init", session_id |-> "", message |-> <<>>, modes |-> NoModes,
                    found |-> FALSE, before |-> NoSession]
    /\ result = Returned(NoSession)
    /\ merge_in = NoMerge
    /\ merge_out = NoMerge
    /\ tasks = [task_id \in TaskIds |-> NoTask]

\* start_session with an id generator that may hand out an id a second time
StartSession_reusing(session_id, caller_info) ==
    /\ active_sessions' =
           [i \in DOMAIN active_sessions \cup {session_id} |->
               IF i = session_id THEN new_session(session_id, caller_info)
               ELSE active_sessions[i]]
    /\ used_ids' = used_ids \cup {session_id}
    /\ last_call' = Call("start_session", session_id, <<>>, NoModes)
    /\ result' = Returned([session_id |-> session_id])
    /\ UNCHANGED <<safety_keywords, safe_passed, faulty_turns, merge_in, merge_out, tasks>>

\* uuid4 returns an id it has not returned before
StartSession(session_id, caller_info) ==
    /\ session_id \notin used_ids
    /\ active_sessions' =
           [i \in DOMAIN active_sessions \cup {session_id} |->
               IF i = session_id THEN new_session(session_id, caller_info)
               ELSE active_sessions[i]]
    /\ used_ids' = used_ids \cup {session_id}
    /\ last_call' = Call("start_session", session_id, <<>>, NoModes)
    /\ result' = Returned([session_id |-> session_id])
    /\ UNCHANGED <<safety_keywords, safe_passed, faulty_turns, merge_in, merge_out, tasks>>

\* the session a call leaves, written to one dict that every session id shares
Reply_shared(session_id, done) ==
    /\ active_sessions' = [i \in DOMAIN active_sessions |-> done.session]
    /\ result' = IF done.exc = NoExc THEN Returned(done.ret) ELSE Raised(done.exc)

Reply(session_id, done) ==
    /\ active_sessions' = [active_sessions EXCEPT ![session_id] = done.session]
    /\ result' = IF done.exc = NoExc THEN Returned(done.ret) ELSE Raised(done.exc)

\* process_message on a live session, the responders behaving as inp says
TurnStep(session_id, user_message, inp) ==
    /\ Reply(session_id, process_message(active_sessions[session_id], user_message, inp))
    /\ last_call' = Call("process_message", session_id, user_message, inp.modes)
    /\ safe_passed' =
           [safe_passed EXCEPT
               ![session_id] =
                   IF IsBlockingOutcome(
                          perform_safety_checks(user_message,
                                                active_sessions[session_id]).ret)
                   THEN @ ELSE @ + 1]
    /\ UNCHANGED <<safety_keywords, used_ids, merge_in, merge_out>>

TriggerBudget(session_id, user_message) ==
    \/ Matching(safety_keywords, lower(user_message)) = <<>>
    \/ active_sessions[session_id].safety_triggers < MaxSafetyTriggers

\* every selected responder runs through
ProcessTurn(session_id, user_message) ==
    /\ session_id \in DOMAIN active_sessions
    /\ TriggerBudget(session_id, user_message)
    /\ \E inp \in TurnInputs(active_sessions[session_id], user_message, FALSE) :
          TurnStep(session_id, user_message, inp)
    /\ UNCHANGED <<faulty_turns, tasks>>

\* a turn the safety gate lets through and in which responders raise or fall back
ProcessFaultyTurn(session_id, user_message) ==
    /\ session_id \in DOMAIN active_sessions
    /\ TriggerBudget(session_id, user_message)
    /\ faulty_turns < MaxFaultyTurns
    /\ ~IsBlockingOutcome(
           perform_safety_checks(user_message, active_sessions[session_id]).ret)
    /\ \E inp \in TurnInputs(active_sessions[session_id], user_message, TRUE) :
          TurnStep(session_id, user_message, inp)
    /\ faulty_turns' = faulty_turns + 1
    /\ UNCHANGED tasks

\* process_message with the membership test inside its try block: the ValueError is
\* caught and answered
ProcessTurnNotFound_degraded(session_id, user_message) ==
    /\ session_id \notin DOMAIN active_sessions
    /\ result' = Returned(TechnicalDifficulties("ValueError"))
    /\ last_call' = Call("process_message", session_id, user_message, NoModes)
    /\ UNCHANGED <<safety_keywords, active_sessions, used_ids, safe_passed, faulty_turns,
                   merge_in, merge_out, tasks>>

ProcessTurnNotFound(session_id, user_message) ==
    /\ session_id \notin DOMAIN active_sessions
    /\ result' = Raised("ValueError")
    /\ last_call' = Call("process_message", session_id, user_message, NoModes)
    /\ UNCHANGED <<safety_keywords, active_sessions, used_ids, safe_passed, faulty_turns,
                   merge_in, merge_out, tasks>>

\* get_session_status that takes the session out of active_sessions as it reads it
GetStatus_popping(session_id) ==
    /\ session_id \in DOMAIN active_sessions
    /\ result' = Returned(get_session_status(active_sessions[session_id]))
    /\ active_sessions' =
           [i \in DOMAIN active_sessions \ {session_id} |-> active_sessions[i]]
    /\ last_call' = Call("get_session_status", session_id, <<>>, NoModes)
    /\ UNCHANGED <<safety_keywords, used_ids, safe_passed, faulty_turns, merge_in, merge_out,
                   tasks>>

GetStatus(session_id) ==
    /\ session_id \in DOMAIN active_sessions
    /\ result' = Returned(get_session_status(active_sessions[session_id]))
    /\ last_call' = Call("get_session_status", session_id, <<>>, NoModes)
    /\ UNCHANGED <<safety_keywords, active_sessions, used_ids, safe_passed, faulty_turns,
                   merge_in, merge_out, tasks>>

GetStatusNotFound(session_id) ==
    /\ session_id \notin DOMAIN active_sessions
    /\ result' = Raised("ValueError")
    /\ last_call' = Call("get_session_status", session_id, <<>>, NoModes)
    /\ UNCHANGED <<safety_keywords, active_sessions, used_ids, safe_passed, faulty_turns,
                   merge_in, merge_out, tasks>>

\* end_session without the del of line 373
EndSession_keeping(session_id) ==
    /\ session_id \in DOMAIN active_sessions
    /\ result' = Returned(end_session_summary(active_sessions[session_id]))
    /\ last_call' = Call("end_session", session_id, <<>>, NoModes)
    /\ UNCHANGED <<safety_keywords, active_sessions, used_ids, safe_passed, faulty_turns,
                   merge_in, merge_out, tasks>>

EndSession(session_id) ==
    /\ session_id \in DOMAIN active_sessions
    /\ result' = Returned(end_session_summary(active_sessions[session_id]))
    /\ active_sessions' =
           [i \in DOMAIN active_sessions \ {session_id} |-> active_sessions[i]]
    /\ last_call' = Call("end_session", session_id, <<>>, NoModes)
    /\ UNCHANGED <<safety_keywords, used_ids, safe_passed, faulty_turns, merge_in, merge_out,
                   tasks>>

\* end_session without the membership test, returning an empty summary for an id that is
\* not there
EndSessionNotFound_silent(session_id) ==
    /\ session_id \notin DOMAIN active_sessions
    /\ result' = Returned([total_turns |-> 0])
    /\ last_call' = Call("end_session", session_id, <<>>, NoModes)
    /\ UNCHANGED <<safety_keywords, active_sessions, used_ids, safe_passed, faulty_turns,
                   merge_in, merge_out, tasks>>

EndSessionNotFound(session_id) ==
    /\ session_id \notin DOMAIN active_sessions
    /\ result' = Raised("ValueError")
    /\ last_call' = Call("end_session", session_id, <<>>, NoModes)
    /\ UNCHANGED <<safety_keywords, active_sessions, used_ids, safe_passed, faulty_turns,
                   merge_in, merge_out, tasks>>

Next ==
    \/ \E session_id \in SessionIds, caller_info \in CallerInfos :
           StartSession(session_id, caller_info)
    \/ \E session_id \in SessionIds, user_message \in UserMessages :
           ProcessTurn(session_id, user_message)
    \/ \E session_id \in SessionIds, user_message \in UserMessages :
           ProcessTurnNotFound(session_id, user_message)
    \/ \E session_id \in SessionIds : GetStatus(session_id)
    \/ \E session_id \in SessionIds : GetStatusNotFound(session_id)
    \/ \E session_id \in SessionIds : EndSession(session_id)
    \/ \E session_id \in SessionIds : EndSessionNotFound(session_id)

\* The session lifecycle, every responder running through.
Spec == Init /\ [][Next]_vars

\* The messages the callers of StoreSpec and ConcurrentSpec send.
StoreMessages ==
    { <<"he", "took", "an", "overdose">>,
      <<"i", "am", "scared">> }

\* ------------------------------------------------ turns below the turn limit
\* The message holds one of the self-harm triggers the safety check blocks on.
HasSelfHarmTrigger(user_message) ==
    \E keyword \in {<<"suicide">>, <<"self-harm">>} :
        keyword \in RangeOf(Matching(safety_keywords, lower(user_message)))

\* process_message with a message that has no self-harm trigger, on a session that has
\* not reached max_conversation_turns: the turns the safety check lets through.
ProcessTurnBelowLimit(session_id, user_message) ==
    /\ session_id \in DOMAIN active_sessions
    /\ active_sessions[session_id].turn_number < max_conversation_turns
    /\ ~HasSelfHarmTrigger(user_message)
    /\ \E inp \in TurnInputs(active_sessions[session_id], user_message, FALSE) :
          TurnStep(session_id, user_message, inp)
    /\ UNCHANGED <<faulty_turns, tasks>>

TriggerNext ==
    \/ \E session_id \in SessionIds, caller_info \in CallerInfos :
           StartSession(session_id, caller_info)
    \/ \E session_id \in SessionIds, user_message \in UserMessages :
           ProcessTurnBelowLimit(session_id, user_message)
    \/ \E session_id \in SessionIds : GetStatus(session_id)

\* One session up to its turn limit, trigger messages repeated as often as the limit
\* allows, every responder running through.
TriggerSpec == Init /\ [][TriggerNext]_vars

\* ------------------------------------------------ the endpoints of backend/main.py
\* MessageResponse(**response): pydantic refuses a dict that lacks one of its fields.
MessageResponseFields == {"message", "agent_type", "confidence", "urgency_level", "metadata"}

\* The except clauses of an endpoint, which turn every exception into one status code
http_status_generic(op, tried) ==
    IF tried.exc # NoExc THEN 500
    ELSE IF op = "process_message" /\ ~(MessageResponseFields \subseteq DOMAIN tried.value)
    THEN 500
    ELSE 200

\* The status code an endpoint answers with when its try block ends as tried says:
\* except ValueError gives 404, except Exception (HTTPException included) gives 500.
http_status(op, tried) ==
    IF tried.exc = "ValueError" THEN 404
    ELSE IF tried.exc # NoExc THEN 500
    ELSE IF op = "process_message" /\ ~(MessageResponseFields \subseteq DOMAIN tried.value)
    THEN 500
    ELSE 200

\* send_message with a body session_id that is not the path session_id: the endpoint
\* raises HTTPException(400) inside its try block and never calls the orchestrator.
SendMessageMismatch(session_id, request_session_id, user_message) ==
    /\ request_session_id # session_id
    /\ result' = [exc |-> "HTTPException",
                  value |-> [status_code |-> 400, detail |-> "Session ID mismatch"]]
    /\ last_call' = Call("send_message", session_id, user_message, NoModes)
    /\ UNCHANGED <<safety_keywords, active_sessions, used_ids, safe_passed, faulty_turns,
                   merge_in, merge_out, tasks>>

\* The requests a client sends to the endpoints; ProcessTurn and ProcessTurnNotFound are
\* send_message with the body session_id equal to the path session_id.
ApiNext ==
    \/ \E session_id \in SessionIds, caller_info \in CallerInfos :
           StartSession(session_id, caller_info)
    \/ \E session_id \in SessionIds, user_message \in StoreMessages :
           ProcessTurn(session_id, user_message)
    \/ \E session_id \in SessionIds, user_message \in StoreMessages :
           ProcessTurnNotFound(session_id, user_message)
    \/ \E session_id \in SessionIds, request_session_id \in StoreSessionIds,
          user_message \in StoreMessages :
           SendMessageMismatch(session_id, request_session_id, user_message)
    \/ \E session_id \in SessionIds : GetStatus(session_id)
    \/ \E session_id \in SessionIds : GetStatusNotFound(session_id)
    \/ \E session_id \in SessionIds : EndSession(session_id)
    \/ \E session_id \in SessionIds : EndSessionNotFound(session_id)

\* The session lifecycle as the HTTP client drives it, every responder running through.
ApiSpec == Init /\ [][ApiNext]_vars

TurnNext ==
    \/ \E session_id \in SessionIds : StartSession(session_id, AnonymousCaller)
    \/ \E session_id \in SessionIds, user_message \in UserMessages :
           ProcessTurn(session_id, user_message)
    \/ \E session_id \in SessionIds, user_message \in UserMessages :
           ProcessFaultyTurn(session_id, user_message)
    \/ \E session_id \in SessionIds, user_message \in UserMessages :
           ProcessTurnNotFound(session_id, user_message)

\* The turns of a session, responders failing in up to MaxFaultyTurns of them.
TurnSpec == Init /\ [][TurnNext]_vars

\* ------------------------------------------------ process_message calls in flight together
\* The awaits of process_message hand control back to the event loop in one place only:
\* asyncio.sleep in _mock_dispatch, which the dispatch responder reaches when it is ready
\* to dispatch. Every other await is on a coroutine that runs through without suspending.
reaches_sleep(selected, user_message, inp) ==
    /\ "dispatch" \in RangeOf(selected.active_agents)
    /\ inp.modes["dispatch"] = "ok"
    /\ ready_to_dispatch(build_context(selected.session, user_message))
    /\ ~real_dispatch_enabled

suspends_after_check(safety_check, user_message, inp) ==
    /\ Has(safety_check.ret, "blocked")
    /\ ~safety_check.ret.blocked
    /\ reaches_sleep(determine_active_agents(user_message,
                                             start_turn(safety_check.session,
                                                        user_message)),
                     user_message, inp)

suspends(session, user_message, inp) ==
    suspends_after_check(perform_safety_checks(user_message, session), user_message, inp)

\* An endpoint handler calls process_message: the coroutine waits for the event loop.
CreateTask(task_id, session_id, user_message) ==
    /\ tasks[task_id] = NoTask
    /\ session_id \in DOMAIN active_sessions
    /\ TriggerBudget(session_id, user_message)
    /\ tasks' = [tasks EXCEPT
                    ![task_id] =
                        [pc |-> "created", session_id |-> session_id,
                         message |-> user_message,
                         overlaps |-> \E other \in TaskIds :
                                         /\ tasks[other] # NoTask
                                         /\ tasks[other].session_id = session_id]]
    /\ UNCHANGED <<safety_keywords, active_sessions, used_ids, safe_passed, faulty_turns,
                   last_call, result, merge_in, merge_out>>

\* The coroutine finds its session gone and raises ValueError.
RunNotFound(task_id) ==
    /\ result' = Raised("ValueError")
    /\ last_call' = Call("process_message", tasks[task_id].session_id,
                         tasks[task_id].message, NoModes)
    /\ tasks' = [tasks EXCEPT ![task_id] = NoTask]
    /\ UNCHANGED <<safety_keywords, active_sessions, used_ids, safe_passed, faulty_turns,
                   merge_in, merge_out>>

\* The coroutine runs from its first line to its return without suspending.
RunThrough(task_id, inp) ==
    /\ TurnStep(tasks[task_id].session_id, tasks[task_id].message, inp)
    /\ tasks' = [tasks EXCEPT ![task_id] = NoTask]
    /\ UNCHANGED faulty_turns

\* The session and the local variables of a coroutine that runs up to asyncio.sleep.
suspended_at_sleep(tried_task, session, selected, inp) ==
    [pc |-> "sleeping", session_id |-> tried_task.session_id,
     message |-> tried_task.message, overlaps |-> tried_task.overlaps,
     before |-> session, started |-> selected.session, modes |-> inp.modes,
     agent_responses |->
         process_through_agents(tried_task.message, selected.session,
                                selected.active_agents, inp)]

\* The coroutine runs up to asyncio.sleep: the turn is counted, its record and its
\* activation entry are in the session, and the other coroutines may run.
RunToSleep(task_id, selected, inp) ==
    /\ active_sessions' =
           [active_sessions EXCEPT ![tasks[task_id].session_id] = selected.session]
    /\ safe_passed' = [safe_passed EXCEPT ![tasks[task_id].session_id] = @ + 1]
    /\ tasks' = [tasks EXCEPT
                    ![task_id] =
                        suspended_at_sleep(@, active_sessions[tasks[task_id].session_id],
                                           selected, inp)]
    /\ UNCHANGED <<safety_keywords, used_ids, faulty_turns, last_call, result, merge_in,
                   merge_out>>

\* What the rest of process_message does to the session dict the coroutine holds.
resumed(slept, session) ==
    catch_exception(finish_turn(session, combine_agent_responses(slept.agent_responses)))

\* The sleep is over: the coroutine merges, writes to the session dict it holds (which
\* end_session may have taken out of active_sessions meanwhile) and returns.
RunFromSleep(task_id) ==
    LET slept == tasks[task_id]
        live == slept.session_id \in DOMAIN active_sessions
        done == resumed(slept, IF live THEN active_sessions[slept.session_id]
                               ELSE slept.started)
    IN  /\ active_sessions' =
               IF live THEN [active_sessions EXCEPT ![slept.session_id] = done.session]
               ELSE active_sessions
        /\ result' = Returned(done.ret)
        /\ last_call' = [op |-> "process_message", session_id |-> slept.session_id,
                         message |-> slept.message, modes |-> slept.modes,
                         found |-> TRUE, before |-> slept.before]
        /\ tasks' = [tasks EXCEPT ![task_id] = NoTask]
        /\ UNCHANGED <<safety_keywords, used_ids, safe_passed, faulty_turns, merge_in,
                       merge_out>>

RunCreated(task_id, session, user_message) ==
    \E inp \in TurnInputs(session, user_message, FALSE) :
        IF suspends(session, user_message, inp)
        THEN RunToSleep(task_id,
                        determine_active_agents(
                            user_message,
                            start_turn(perform_safety_checks(user_message,
                                                             session).session,
                                       user_message)),
                        inp)
        ELSE RunThrough(task_id, inp)

\* The event loop runs one of its coroutines until it suspends or returns.
RunTask(task_id) ==
    /\ tasks[task_id] # NoTask
    /\ IF tasks[task_id].pc = "sleeping" THEN RunFromSleep(task_id)
       ELSE IF tasks[task_id].session_id \notin DOMAIN active_sessions
       THEN RunNotFound(task_id)
       ELSE RunCreated(task_id, active_sessions[tasks[task_id].session_id],
                       tasks[task_id].message)

ConcurrentNext ==
    \/ \E session_id \in SessionIds, caller_info \in CallerInfos :
           StartSession(session_id, caller_info)
    \/ \E task_id \in TaskIds, session_id \in SessionIds, user_message \in StoreMessages :
           CreateTask(task_id, session_id, user_message)
    \/ \E task_id \in TaskIds : RunTask(task_id)
    \/ \E session_id \in SessionIds : EndSession(session_id)

\* One session, the process_message calls on it made while others are pending, every
\* responder running through.
ConcurrentSpec == Init /\ [][ConcurrentNext]_vars

\* The call returns what left its try block through the except clause: Reply and the
\* bookkeeping of TurnStep, for a coroutine of the event loop.
ReturnFromTask(task_id, safety_check, tried, modes) ==
    /\ Reply(tasks[task_id].session_id, catch_exception(tried))
    /\ last_call' = Call("process_message", tasks[task_id].session_id,
                         tasks[task_id].message, modes)
    /\ safe_passed' =
           [safe_passed EXCEPT
               ![tasks[task_id].session_id] =
                   IF IsBlockingOutcome(safety_check.ret) THEN @ ELSE @ + 1]
    /\ tasks' = [tasks EXCEPT ![task_id] = NoTask]
    /\ UNCHANGED <<safety_keywords, used_ids, faulty_turns, merge_in, merge_out>>

\* The input of a call that runs no responder.
NoInput == [modes |-> NoModes, sentiment_scores |-> NeutralSentiment,
            guidance_needed |-> "unknown"]

\* process_message run statement by statement from its first line, each local variable
\* (safety_check, active_agents, agent_responses, final_response) bound once to the
\* value its assignment gives it: lines 81-119.
RunStatements(task_id, session, user_message) ==
    \E safety_check \in {perform_safety_checks(user_message, session)} :
        IF ~Has(safety_check.ret, "blocked") \/ safety_check.ret.blocked
        THEN \E tried \in {after_safety_check(safety_check, user_message, NoInput)} :
                 ReturnFromTask(task_id, safety_check, tried, NoModes)
        ELSE \E selected \in {determine_active_agents(
                                  user_message,
                                  start_turn(safety_check.session, user_message))} :
             \E inp \in InputsForSelected(selected, user_message, FALSE) :
                 IF reaches_sleep(selected, user_message, inp)
                 THEN RunToSleep(task_id, selected, inp)
                 ELSE \E agent_responses \in
                             {process_through_agents(user_message, selected.session,
                                                     selected.active_agents, inp)} :
                      \E combined \in {combine_agent_responses(agent_responses)} :
                      \E tried \in {finish_turn(selected.session, combined)} :
                          ReturnFromTask(task_id, safety_check, tried, inp.modes)

\* The event loop that never schedules a call made while another call on its session
\* was pending.
RunTaskStatements_stalling(task_id) ==
    /\ tasks[task_id] # NoTask
    /\ ~tasks[task_id].overlaps
    /\ IF tasks[task_id].pc = "sleeping" THEN RunFromSleep(task_id)
       ELSE IF tasks[task_id].session_id \notin DOMAIN active_sessions
       THEN RunNotFound(task_id)
       ELSE RunStatements(task_id, active_sessions[tasks[task_id].session_id],
                          tasks[task_id].message)

\* The event loop runs one of its coroutines until it suspends or returns, the
\* coroutine of process_message taken statement by statement.
RunTaskStatements(task_id) ==
    /\ tasks[task_id] # NoTask
    /\ IF tasks[task_id].pc = "sleeping" THEN RunFromSleep(task_id)
       ELSE IF tasks[task_id].session_id \notin DOMAIN active_sessions
       THEN RunNotFound(task_id)
       ELSE RunStatements(task_id, active_sessions[tasks[task_id].session_id],
                          tasks[task_id].message)

ConcurrentFairNext ==
    \/ \E session_id \in SessionIds, caller_info \in CallerInfos :
           StartSession(session_id, caller_info)
    \/ \E task_id \in TaskIds, session_id \in SessionIds, user_message \in StoreMessages :
           CreateTask(task_id, session_id, user_message)
    \/ \E task_id \in TaskIds : RunTaskStatements(task_id)
    \/ \E session_id \in SessionIds : EndSession(session_id)

\* The asyncio event loop keeps a FIFO queue of ready coroutines and runs each of them
\* in turn: a process_message call that is ready to run is run. No responder waits on
\* anything but the timer of _mock_dispatch, which fires.
ConcurrentFairSpec ==
    /\ Init
    /\ [][ConcurrentFairNext]_vars
    /\ \A task_id \in TaskIds : WF_vars(RunTaskStatements(task_id))

\* ------------------------------------------------ two sessions side by side
StoreNext ==
    \/ \E session_id \in StoreSessionIds : StartSession(session_id, AnonymousCaller)
    \/ \E session_id \in StoreSessionIds, user_message \in StoreMessages :
           ProcessTurn(session_id, user_message)
    \/ \E session_id \in StoreSessionIds, user_message \in StoreMessages :
           ProcessTurnNotFound(session_id, user_message)
    \/ \E session_id \in StoreSessionIds : GetStatus(session_id)
    \/ \E session_id \in StoreSessionIds : GetStatusNotFound(session_id)
    \/ \E session_id \in StoreSessionIds : EndSession(session_id)
    \/ \E session_id \in StoreSessionIds : EndSessionNotFound(session_id)

\* The session lifecycle of two sessions, every responder running through.
StoreSpec == Init /\ [][StoreNext]_vars

\* ------------------------------------------------ _combine_agent_responses on its own
Ordered(active) == SelectSeq(insertion_order, LAMBDA a : a \in active)

\* The ways the selected responders of a turn may behave, for every non-empty selection.
SelectionModes == UNION { [active -> Modes] : active \in (SUBSET AgentNames) \ {{}} }

\* The session _process_through_agents is called on: the first turn has started.
FirstTurn(user_message) ==
    start_turn(new_session("sid-1", AnonymousCaller), user_message)

\* last_call holds the arguments of _process_through_agents: the message, and the
\* selected responders with what each will do when awaited.
MergeInit ==
    /\ safety_keywords = SAFETY_KEYWORDS
    /\ active_sessions = [i \in {} |-> NoSession]
    /\ used_ids = {}
    /\ safe_passed = [i \in StoreSessionIds |-> 0]
    /\ faulty_turns = 0
    /\ \E user_message \in UserMessages, modes \in SelectionModes :
          last_call = [op |-> "_process_through_agents", session_id |-> "sid-1",
                       message |-> user_message, modes |-> modes, found |-> TRUE,
                       before |-> FirstTurn(user_message)]
    /\ result = Returned(NoSession)
    /\ merge_in = NoMerge
    /\ merge_out = NoMerge
    /\ tasks = [task_id \in TaskIds |-> NoTask]

\* _process_through_agents returns once its loop has awaited every task
Execute ==
    /\ Has(merge_in, "absent")
    /\ \E inp \in InputsFor(DOMAIN last_call.modes,
                            build_context(last_call.before, last_call.message),
                            {last_call.modes}) :
          merge_in' = process_through_agents(last_call.message, last_call.before,
                                             Ordered(DOMAIN last_call.modes), inp)
    /\ UNCHANGED <<safety_keywords, active_sessions, used_ids, safe_passed, faulty_turns,
                   last_call, result, merge_out, tasks>>

\* _combine_agent_responses on what _process_through_agents returned
Merge ==
    /\ ~Has(merge_in, "absent")
    /\ Has(merge_out, "absent")
    /\ merge_out' = combine_agent_responses(merge_in)
    /\ UNCHANGED <<safety_keywords, active_sessions, used_ids, safe_passed, faulty_turns,
                   last_call, result, merge_in, tasks>>

MergeNext == Execute \/ Merge

\* _process_through_agents and then _combine_agent_responses, on the first turn of a
\* session, for every non-empty selection of responders and every way they may behave.
MergeSpec == MergeInit /\ [][MergeNext]_vars

\* ------------------------------------------------------------------ properties
\* The last operation was process_message on a session of active_sessions.
TurnCall == last_call.op = "process_message" /\ last_call.found

\* The session of the last call, as the call left it.
SessionNow == active_sessions[last_call.session_id]

\* The safety gate answered the last call with one of its blocking outcomes.
GateBlocked ==
    IsBlockingOutcome(perform_safety_checks(last_call.message, last_call.before).ret)

IsPrefix(p, text) == Len(p) <= Len(text) /\ SubSeq(text, 1, Len(p)) = p

\* C1: process_message on an active session with a message containing the configured
\* self-harm trigger "suicide" returns the fixed safety outcome (blocked, agent type
\* safety, urgency critical) and raises the session's safety_triggers by exactly 1.
C1_SelfHarmOutcomeReturned ==
    (/\ TurnCall
     /\ <<"suicide">> \in RangeOf(safety_keywords)
     /\ IsIn(<<"suicide">>, lower(last_call.message)))
    => /\ result.exc = NoExc
       /\ result.value.agent_type = "safety"
       /\ result.value.urgency_level = "critical"
       /\ IsBlockingOutcome(result.value)
       /\ SessionNow.safety_triggers = last_call.before.safety_triggers + 1

\* C2: once max_conversation_turns turns have been counted, the next process_message
\* with no safety trigger returns the fixed high-urgency hand-off outcome (blocked),
\* leaves loop_breaker_active true and does not advance turn_number.
C2_LoopBreakerOutcomeReturned ==
    (/\ TurnCall
     /\ last_call.before.turn_number = max_conversation_turns
     /\ Matching(safety_keywords, lower(last_call.message)) = <<>>)
    => /\ result.exc = NoExc
       /\ result.value.agent_type = "safety"
       /\ result.value.urgency_level = "high"
       /\ IsBlockingOutcome(result.value)
       /\ SessionNow.loop_breaker_active
       /\ SessionNow.turn_number = last_call.before.turn_number

\* C3: the turn_number of every session equals the number of process_message calls on
\* it that the safety gate did not block, and a call the gate blocked leaves turn_number
\* as it was.
C3_TurnNumberCountsUnblockedCalls ==
    /\ \A session_id \in DOMAIN active_sessions :
          active_sessions[session_id].turn_number = safe_passed[session_id]
    /\ (TurnCall /\ GateBlocked)
       => SessionNow.turn_number = last_call.before.turn_number

\* a blocked call on a session that has counted turns, one of them with a failed responder
C3_Witness ==
    /\ TurnCall
    /\ GateBlocked
    /\ SessionNow.turn_number >= 1
    /\ faulty_turns >= 1

\* C4: on the first process_message of a session (turn_number 0 before the call) that
\* the safety gate lets through, empathy is among the activated responders and, when
\* another responder is primary, the reply begins with the empathy responder's message.
C4_EmpathyOnFirstTurn ==
    (TurnCall /\ last_call.before.turn_number = 0 /\ ~GateBlocked)
    => /\ "empathy" \in RangeOf(SessionNow.agent_activations[1].agents)
       /\ result.value.agent_type # "empathy"
          => \E sc \in SentimentScores :
                IsPrefix(empathy_process_message(
                             last_call.message,
                             build_context(start_turn(last_call.before,
                                                      last_call.message),
                                           last_call.message),
                             sc, "ok").message,
                         result.value.message)

\* C5: a process_message on a session whose urgency_level is critical leaves it
\* critical.
C5_CriticalNotLowered ==
    (TurnCall /\ last_call.before.urgency_level = "critical")
    => SessionNow.urgency_level = "critical"

\* C6: no step takes triage_complete, dispatch_attempted, dispatch_successful or
\* loop_breaker_active of a session from true to false.
C6_OneWayFlags ==
    [][\A session_id \in DOMAIN active_sessions \cap DOMAIN active_sessions' :
          /\ active_sessions[session_id].triage_complete
             => active_sessions'[session_id].triage_complete
          /\ active_sessions[session_id].dispatch_attempted
             => active_sessions'[session_id].dispatch_attempted
          /\ active_sessions[session_id].dispatch_successful
             => active_sessions'[session_id].dispatch_successful
          /\ active_sessions[session_id].loop_breaker_active
             => active_sessions'[session_id].loop_breaker_active]_vars

\* a process_message on a session whose loop_breaker_active was already true
C6_Witness ==
    /\ TurnCall
    /\ last_call.before.loop_breaker_active
    /\ SessionNow.loop_breaker_active

\* C7: _combine_agent_responses takes as primary the first of dispatch, guidance,
\* triage, empathy that has a response, and the dict returned has the primary's agent
\* type, confidence and urgency level.
C7_PrimaryByPriority ==
    ~Has(merge_out, "absent")
    => LET present == DOMAIN merge_in
           primary == IF "dispatch" \in present THEN "dispatch"
                      ELSE IF "guidance" \in present THEN "guidance"
                      ELSE IF "triage" \in present THEN "triage"
                      ELSE "empathy"
           reply == merge_out.final_response
       IN  /\ reply.agent_type = primary
           /\ reply.agent_type = merge_in[primary].agent_type
           /\ reply.confidence = merge_in[primary].confidence
           /\ Has(reply, "urgency_level") <=> Has(merge_in[primary], "urgency_level")
           /\ Has(reply, "urgency_level")
              => reply.urgency_level = merge_in[primary].urgency_level

\* responses of empathy, guidance and dispatch merged, dispatch being primary
C7_Witness ==
    /\ ~Has(merge_out, "absent")
    /\ DOMAIN merge_in = {"empathy", "guidance", "dispatch"}
    /\ merge_out.final_response.agent_type = "dispatch"

\* C8: the message _combine_agent_responses returns is the empathy message, one space
\* and the primary's message when the primary is not empathy and empathy has a
\* response, and the primary's message unchanged otherwise.
C8_EmpathyPrependedOnce ==
    ~Has(merge_out, "absent")
    => LET primary == merge_out.final_response.agent_type
       IN  merge_out.final_response.message =
               IF primary # "empathy" /\ "empathy" \in DOMAIN merge_in
               THEN merge_in["empathy"].message \o <<" ">> \o merge_in[primary].message
               ELSE merge_in[primary].message

\* responses of empathy and triage merged, triage being primary
C8_Witness ==
    /\ ~Has(merge_out, "absent")
    /\ DOMAIN merge_in = {"empathy", "triage"}
    /\ merge_out.final_response.agent_type = "triage"

\* C9: process_message on a session of active_sessions returns a dict with a non-empty
\* message whatever the message and whichever responders fail, and raises nothing; for
\* a session that is not there it raises ValueError.
C9_AlwaysReplies ==
    last_call.op = "process_message"
    => IF last_call.found
       THEN /\ result.exc = NoExc
            /\ Has(result.value, "message")
            /\ result.value.message # <<>>
       ELSE result.exc = "ValueError"

\* a turn in which a responder raised and the except clause of process_message answered
C9_Witness ==
    /\ TurnCall
    /\ \E a \in DOMAIN last_call.modes : last_call.modes[a] = "raise"
    /\ result.exc = NoExc
    /\ result.value.agent_type = "system"

\* C10: when a selected responder raises during a turn, process_message returns the
\* merged reply built from the responders' outcomes, not the technical-difficulties
\* reply, and the state updates of the other responders are applied (here: the empathy
\* score of an empathy responder that ran through).
C10_ResponderFailureIsolated ==
    (TurnCall /\ \E a \in DOMAIN last_call.modes : last_call.modes[a] = "raise")
    => /\ result.exc = NoExc
       /\ result.value.agent_type \in DOMAIN last_call.modes
       /\ Has(result.value.metadata, "all_agents")
       /\ (/\ Has(result.value.metadata.all_agents, "empathy_metadata")
           /\ Has(result.value.metadata.all_agents.empathy_metadata, "empathy_score"))
          => SessionNow.empathy_score =
                 result.value.metadata.all_agents.empathy_metadata.empathy_score

\* C11: _process_through_agents returns exactly one response per selected responder,
\* none missing and none extra, whichever of them raise; the entry of a responder that
\* raised is the low-confidence error placeholder, the entry of any other is that
\* responder's own response; and _combine_agent_responses has run only on the complete
\* mapping.
C11_OneResponsePerSelected ==
    ~Has(merge_in, "absent")
    => /\ DOMAIN merge_in = DOMAIN last_call.modes
       /\ \A a \in DOMAIN last_call.modes :
             /\ merge_in[a].agent_type = a
             /\ last_call.modes[a] = "raise"
                => /\ merge_in[a].confidence = 10
                   /\ merge_in[a].message = <<"Error in ", a, " processing">>
                   /\ Has(merge_in[a].metadata, "error")
             /\ last_call.modes[a] # "raise"
                => /\ Has(merge_in[a], "urgency_level")
                   /\ merge_in[a].message # <<"Error in ", a, " processing">>
       /\ ~Has(merge_out, "absent")
          => \A a \in DOMAIN last_call.modes :
                Has(merge_out.agent_responses, a)

\* all four responders selected, triage and dispatch raising, the other two running
\* through, and the mapping merged
C11_Witness ==
    /\ ~Has(merge_out, "absent")
    /\ DOMAIN last_call.modes = AgentNames
    /\ last_call.modes["triage"] = "raise"
    /\ last_call.modes["dispatch"] = "raise"
    /\ last_call.modes["empathy"] = "ok"
    /\ last_call.modes["guidance"] = "ok"

\* C12: end_session on an id whose session has been ended raises ValueError (session not
\* found) and changes nothing in active_sessions; a successful end_session leaves its id
\* out of active_sessions, so a second call on the same id is such a call.
C12_SecondEndNotFound ==
    [][/\ (last_call'.op = "end_session" /\ ~last_call'.found)
          => (result'.exc = "ValueError" /\ active_sessions' = active_sessions)
       /\ (last_call'.op = "end_session" /\ last_call'.found)
          => last_call'.session_id \notin DOMAIN active_sessions']_vars

\* end_session called again on the id of a session that was started and ended
C12_Witness ==
    /\ last_call.op = "end_session"
    /\ ~last_call.found
    /\ last_call.session_id \in used_ids
    /\ result.exc = "ValueError"

\* C13: process_message and get_session_status on an id that was never started or whose
\* session has been ended raise ValueError (session not found) to the caller and leave
\* active_sessions, with every live session in it, as it was.
C13_AbsentSessionNotFound ==
    [][(/\ last_call'.op \in {"process_message", "get_session_status"}
        /\ ~last_call'.found)
       => /\ result'.exc = "ValueError"
          /\ active_sessions' = active_sessions]_vars

\* process_message on the id of an ended session while another session is live and has
\* counted a turn
C13_Witness ==
    /\ last_call.op = "process_message"
    /\ ~last_call.found
    /\ last_call.session_id \in used_ids
    /\ result.exc = "ValueError"
    /\ \E other \in DOMAIN active_sessions : active_sessions[other].turn_number >= 1

\* C14: when process_message ends with the 'technical difficulties' reply of its except
\* clause, the session shows no partial update of that turn: turn_number, the turn
\* records and the activation log are as they were before the call.
C14_FailedTurnLeavesNoTrace ==
    (/\ TurnCall
     /\ result.exc = NoExc
     /\ result.value.agent_type = "system"
     /\ Has(result.value.metadata, "error"))
    => /\ SessionNow.turn_number = last_call.before.turn_number
       /\ SessionNow.conversation_history = last_call.before.conversation_history
       /\ SessionNow.agent_activations = last_call.before.agent_activations

\* Some process_message coroutine is suspended between its first and its last line.
SomeTurnInFlight == \E task_id \in TaskIds : tasks[task_id].pc = "sleeping"

\* C15: two process_message calls made together on one session never interleave: no call
\* is suspended midway, every completed call leaves the session and the reply that one
\* run of process_message from the session it found gives (so the calls compose in one
\* of the serial orders), and the turn record a call completes is the record of its own
\* message, carrying the reply it returned, the earlier records being kept as they were.
C15_TurnsNeverInterleave ==
    /\ ~SomeTurnInFlight
    /\ TurnCall
       => \E inp \in TurnInputs(last_call.before, last_call.message, FALSE) :
              /\ result = Returned(process_message(last_call.before, last_call.message,
                                                   inp).ret)
              /\ SessionNow = process_message(last_call.before, last_call.message,
                                              inp).session
    /\ (TurnCall /\ ~GateBlocked)
       => /\ Len(SessionNow.conversation_history)
               = Len(last_call.before.conversation_history) + 1
          /\ IsPrefix(last_call.before.conversation_history,
                      SessionNow.conversation_history)
          /\ Last(SessionNow.conversation_history).user_message = last_call.message
          /\ Last(SessionNow.conversation_history).agent_response = result.value.message
          /\ Last(SessionNow.conversation_history).agent_type = result.value.agent_type

\* A call made while another call on the session was pending has completed a turn after
\* an earlier turn, and the call it overlapped with is still pending.
C15_Witness ==
    /\ TurnCall
    /\ ~GateBlocked
    /\ last_call.before.turn_number >= 1
    /\ \E task_id \in TaskIds :
           /\ tasks[task_id].pc = "created"
           /\ tasks[task_id].overlaps
           /\ tasks[task_id].session_id = last_call.session_id
           /\ \A other \in TaskIds \ {task_id} : tasks[other] = NoTask

\* C16: end_session never removes a session while a process_message call on it is
\* between its first and its last line, and a call that runs after its session was ended
\* raises ValueError and writes nothing.
C16_EndNeverDuringTurn ==
    [][\A task_id \in TaskIds :
           /\ tasks[task_id].pc = "sleeping"
              => tasks[task_id].session_id \in DOMAIN active_sessions'
           /\ (/\ tasks[task_id] # NoTask
               /\ tasks'[task_id] = NoTask
               /\ tasks[task_id].session_id \notin DOMAIN active_sessions)
              => /\ result'.exc = "ValueError"
                 /\ active_sessions' = active_sessions]_vars

\* end_session has removed a session that a pending process_message call addresses.
C16_Witness ==
    /\ last_call.op = "end_session"
    /\ last_call.found
    /\ \E task_id \in TaskIds :
           /\ tasks[task_id].pc = "created"
           /\ tasks[task_id].session_id = last_call.session_id
           /\ tasks[task_id].session_id \notin DOMAIN active_sessions

\* The step leaves the sessions other than session_id as they were: none of them is
\* added, removed or written.
OthersUntouched(session_id) ==
    \A other \in StoreSessionIds \ {session_id} :
        /\ other \in DOMAIN active_sessions' <=> other \in DOMAIN active_sessions
        /\ other \in DOMAIN active_sessions
           => active_sessions'[other] = active_sessions[other]

\* C17: sessions are independent: start_session, process_message, get_session_status and
\* end_session called with one session id leave every other session of active_sessions
\* exactly as it was.
C17_SessionsIndependent == [][OthersUntouched(last_call'.session_id)]_vars

\* A turn has been completed on one session while another live session had a turn of
\* its own.
C17_Witness ==
    /\ TurnCall
    /\ ~GateBlocked
    /\ \E other \in DOMAIN active_sessions \ {last_call.session_id} :
           active_sessions[other].turn_number >= 1

\* C18: get_session_status is read-only: it changes no field of any session and neither
\* adds nor removes a session.
C18_StatusReadOnly ==
    [][last_call'.op = "get_session_status" => active_sessions' = active_sessions]_vars

\* The status of a session with a completed turn has been read while a second session
\* was live.
C18_Witness ==
    /\ last_call.op = "get_session_status"
    /\ last_call.found
    /\ result.exc = NoExc
    /\ result.value.turn_number >= 1
    /\ SessionNow = last_call.before
    /\ Cardinality(DOMAIN active_sessions) = 2

\* C20: end_session on a live session removes exactly that session and returns a summary
\* whose total_turns is the session's turn_number, the number of calls on it that the
\* safety gate let through.
C20_EndRemovesAndCounts ==
    [][(last_call'.op = "end_session" /\ last_call'.found)
       => /\ DOMAIN active_sessions' = DOMAIN active_sessions \ {last_call'.session_id}
          /\ OthersUntouched(last_call'.session_id)
          /\ result'.exc = NoExc
          /\ result'.value.total_turns
                 = active_sessions[last_call'.session_id].turn_number
          /\ result'.value.total_turns = safe_passed[last_call'.session_id]]_vars

\* A session with a completed turn and a call the safety gate blocked has been ended
\* while a second session stayed live.
C20_Witness ==
    /\ last_call.op = "end_session"
    /\ last_call.found
    /\ last_call.before.safety_triggers >= 1
    /\ result.value.total_turns >= 1
    /\ last_call.session_id \notin DOMAIN active_sessions
    /\ active_sessions # <<>>

\* The critical keywords the triage responder of the last call reported.
ReportedKeywords ==
    IF "triage" \in DOMAIN last_call.modes /\ last_call.modes["triage"] = "ok"
    THEN RangeOf(extract_critical_keywords(last_call.message))
    ELSE {}

\* C19: critical_keywords never holds a keyword twice, and after a call that the safety
\* gate let through it holds every keyword it held before the call and every keyword
\* the triage responder reported in that call.
C19_KeywordsUniqueAndGrowing ==
    /\ \A session_id \in DOMAIN active_sessions :
           Cardinality(RangeOf(active_sessions[session_id].critical_keywords))
               = Len(active_sessions[session_id].critical_keywords)
    /\ (TurnCall /\ ~GateBlocked)
       => /\ RangeOf(last_call.before.critical_keywords)
                 \subseteq RangeOf(SessionNow.critical_keywords)
          /\ ReportedKeywords \subseteq RangeOf(SessionNow.critical_keywords)

\* The triage responder has reported, in a second turn, keywords the session already
\* held.
C19_Witness ==
    /\ TurnCall
    /\ ~GateBlocked
    /\ ReportedKeywords # {}
    /\ ReportedKeywords \subseteq RangeOf(last_call.before.critical_keywords)

\* The session is as start_session creates it, whoever the caller is.
IsFresh(session) ==
    /\ session.turn_number = 0
    /\ session.conversation_history = <<>>
    /\ session.questions_asked = {}
    /\ session.critical_keywords = <<>>
    /\ session.urgency_level = "unknown"
    /\ session.emergency_type = "unknown"
    /\ session.safety_triggers = 0
    /\ ~session.triage_complete
    /\ ~session.dispatch_attempted
    /\ ~session.dispatch_successful
    /\ ~session.loop_breaker_active

\* C21: start_session returns an id that no live session has and stores under it a
\* session with turn_number 0, empty conversation_history, questions_asked and
\* critical_keywords, urgency_level and emergency_type "unknown", safety_triggers 0 and
\* triage_complete, dispatch_attempted, dispatch_successful, loop_breaker_active false.
C21_StartCreatesFreshSession ==
    [][last_call'.op = "start_session"
       => /\ result'.exc = NoExc
          /\ result'.value.session_id \notin DOMAIN active_sessions
          /\ result'.value.session_id \in DOMAIN active_sessions'
          /\ active_sessions'[result'.value.session_id].session_id
                 = result'.value.session_id
          /\ IsFresh(active_sessions'[result'.value.session_id])]_vars

\* A session has been started while another session, with a turn behind it, was live.
C21_Witness ==
    /\ last_call.op = "start_session"
    /\ IsFresh(SessionNow)
    /\ \E other \in DOMAIN active_sessions \ {last_call.session_id} :
           active_sessions[other].turn_number >= 1

\* The last request named a session id that was not in active_sessions.
UnknownSessionRequest ==
    /\ last_call.op \in {"send_message", "process_message", "get_session_status",
                         "end_session"}
    /\ ~last_call.found

\* The status code of the response to the last request.
StatusCode == http_status(last_call.op, result)

\* C22, as stated: send_message, get_session_status and end_session for a session id
\* that is not in active_sessions answer 404, whatever the request body says.
C22_UnknownSessionIs404_AsStated == UnknownSessionRequest => StatusCode = 404

\* C22: get_session_status, end_session, and send_message with a body session_id equal
\* to the path session_id, answer 404 for a session id that is not in active_sessions
\* (never started, or ended), and leave active_sessions as it was.
C22_UnknownSessionIs404 ==
    (UnknownSessionRequest /\ last_call.op # "send_message")
    => /\ StatusCode = 404
       /\ last_call.session_id \notin DOMAIN active_sessions

\* send_message, with matching ids, has been answered for a session that had been
\* ended.
C22_Witness ==
    /\ last_call.op = "process_message"
    /\ ~last_call.found
    /\ last_call.session_id \in used_ids
    /\ StatusCode = 404

\* The dispatch responder was selected in the last call.
DispatchSelected == "dispatch" \in DOMAIN last_call.modes

\* C23: when the dispatch responder is activated on a turn because the session's
\* urgency_level is critical while _ready_to_dispatch does not hold, a dispatch attempt
\* is made on that turn: after the turn the session's dispatch_attempted is true.
C23_CriticalForcesDispatchAttempt ==
    (/\ TurnCall
     /\ ~GateBlocked
     /\ DispatchSelected
     /\ last_call.before.urgency_level = "critical"
     /\ ~ready_to_dispatch(build_context(last_call.before, last_call.message)))
    => SessionNow.dispatch_attempted

\* The message matches a configured safety keyword.
IsTrigger(user_message) == Matching(safety_keywords, lower(user_message)) # <<>>

\* The turn records of the session whose message matches a configured safety keyword.
TriggerRecords(session) ==
    { i \in 1..Len(session.conversation_history) :
          IsTrigger(session.conversation_history[i].user_message) }

\* C24: a message that matches only non-self-harm triggers ("overdose") while
\* turn_number < max_conversation_turns raises safety_triggers by exactly 1 and does not
\* block: the turn raises turn_number and returns the merged reply of the responders;
\* after k such messages safety_triggers is k.
C24_TriggersCountedNotBlocking ==
    /\ (/\ TurnCall
        /\ IsTrigger(last_call.message)
        /\ ~HasSelfHarmTrigger(last_call.message)
        /\ last_call.before.turn_number < max_conversation_turns)
       => /\ SessionNow.safety_triggers = last_call.before.safety_triggers + 1
          /\ SessionNow.turn_number = last_call.before.turn_number + 1
          /\ result.exc = NoExc
          /\ ~IsBlockingOutcome(result.value)
          /\ result.value.agent_type \in AgentNames
          /\ Last(SessionNow.conversation_history).agent_response = result.value.message
    /\ \A session_id \in DOMAIN active_sessions :
           active_sessions[session_id].safety_triggers
               = Cardinality(TriggerRecords(active_sessions[session_id]))

\* "overdose" has been sent a second time and counted a second time.
C24_Witness ==
    /\ TurnCall
    /\ IsTrigger(last_call.message)
    /\ ~HasSelfHarmTrigger(last_call.message)
    /\ last_call.before.safety_triggers = 1
    /\ SessionNow.safety_triggers = 2

\* C25: a process_message call that the safety check blocks changes nothing in the
\* session except safety_triggers and loop_breaker_active: turn_number,
\* conversation_history, agent_activations, urgency_level, emergency_type,
\* critical_keywords, the triage and dispatch flags and empathy_score stay as they were,
\* and no responder is invoked (the reply is not a responder's, and no response time or
\* sentiment is recorded).
C25_BlockedTurnFrame ==
    (TurnCall /\ GateBlocked)
    => /\ SessionNow = [last_call.before EXCEPT
                           !.safety_triggers = SessionNow.safety_triggers,
                           !.loop_breaker_active = SessionNow.loop_breaker_active]
       /\ last_call.modes = NoModes
       /\ result.value.agent_type \notin AgentNames

\* A call on a session with a completed turn has been blocked, and the safety check left
\* its mark on the session.
C25_Witness ==
    /\ TurnCall
    /\ GateBlocked
    /\ last_call.before.turn_number >= 1
    /\ last_call.before.agent_activations # <<>>
    /\ \/ SessionNow.safety_triggers = last_call.before.safety_triggers + 1
       \/ SessionNow.loop_breaker_active /\ ~last_call.before.loop_breaker_active

\* The responders selected in the turn of the last call, as the activation log has them.
SelectedNow == RangeOf(Last(SessionNow.agent_activations).agents)

\* The snapshot of the session as it was before the last call.
SnapshotBefore == build_context(last_call.before, last_call.message)

\* C26: in a turn that the safety check lets through, the snapshot is taken from the
\* session before the responders run and the session is updated after the merge: the
\* guidance and dispatch responders are selected by urgency_level, emergency_type,
\* critical_keywords and triage_complete as the turn before left them, a guidance or
\* dispatch reply carries the urgency of that snapshot, and what the triage responder
\* finds in this turn is on the session only when the turn is over.
C26_RespondersSeeEarlierTurn ==
    (TurnCall /\ ~GateBlocked)
    => /\ "guidance" \in SelectedNow <=> guidance_should_activate(SnapshotBefore)
       /\ "dispatch" \in SelectedNow <=> dispatch_should_activate(SnapshotBefore)
       /\ result.value.agent_type \in {"guidance", "dispatch"}
          => result.value.urgency_level = last_call.before.urgency_level
       /\ (/\ "triage" \in SelectedNow
           /\ assess_urgency(last_call.message)[1] # "unknown")
          => SessionNow.urgency_level = assess_urgency(last_call.message)[1]

\* The first turn found a critical emergency but ran without the guidance responder,
\* which the second turn selected.
C26_Witness ==
    /\ TurnCall
    /\ ~GateBlocked
    /\ Len(SessionNow.agent_activations) = 2
    /\ assess_urgency(SessionNow.conversation_history[1].user_message)[1] = "critical"
    /\ "guidance" \notin RangeOf(SessionNow.agent_activations[1].agents)
    /\ "guidance" \in SelectedNow
    /\ assess_urgency(last_call.message)[1] = "unknown"

\* The snapshot _determine_active_agents takes in the turn of the last call.
SnapshotOfTurn ==
    build_context(start_turn(perform_safety_checks(last_call.message,
                                                   last_call.before).session,
                             last_call.message),
                  last_call.message)

\* The responders whose should_activate holds on the snapshot.
ShouldActivate(context) ==
    { agent \in AgentNames :
          CASE agent = "empathy" -> empathy_should_activate(context)
            [] agent = "triage" -> triage_should_activate(context)
            [] agent = "guidance" -> guidance_should_activate(context)
            [] agent = "dispatch" -> dispatch_should_activate(context) }

\* C27: _determine_active_agents returns exactly the responders whose should_activate
\* holds on the snapshot, each once; when none holds it returns empathy and triage on
\* turn 1 and triage alone otherwise; the selection is never empty, it is appended to
\* the session's agent_activations, and it is the set of responders that run.
C27_SelectionIsShouldActivate ==
    (TurnCall /\ ~GateBlocked)
    => /\ Len(SessionNow.agent_activations)
              = Len(last_call.before.agent_activations) + 1
       /\ IsPrefix(last_call.before.agent_activations, SessionNow.agent_activations)
       /\ Last(SessionNow.agent_activations).turn = last_call.before.turn_number + 1
       /\ SelectedNow # {}
       /\ Cardinality(SelectedNow) = Len(Last(SessionNow.agent_activations).agents)
       /\ ShouldActivate(SnapshotOfTurn) # {}
          => SelectedNow = ShouldActivate(SnapshotOfTurn)
       /\ ShouldActivate(SnapshotOfTurn) = {}
          => Last(SessionNow.agent_activations).agents
                 = IF last_call.before.turn_number = 0 THEN <<"empathy", "triage">>
                   ELSE <<"triage">>
       /\ DOMAIN last_call.modes = SelectedNow

\* Two turns have selected different responders: triage alone, then all four.
C27_Witness ==
    /\ TurnCall
    /\ ~GateBlocked
    /\ Len(SessionNow.agent_activations) = 2
    /\ SessionNow.agent_activations[1].agents = <<"triage">>
    /\ SelectedNow = AgentNames

\* The triage responder returned an outcome in the turn of the last call (it ran
\* through, or fell back to the reply of its own except clause).
TriageOutcomeProduced ==
    "triage" \in DOMAIN last_call.modes /\ last_call.modes["triage"] # "raise"

\* The urgency_level of that outcome.
TriageUrgency ==
    triage_process_message(last_call.message, SnapshotOfTurn,
                           last_call.modes["triage"]).urgency_level

\* C28: after a turn that the safety check lets through and in which the triage
\* responder produced an outcome with urgency u, the session's urgency_level is
\* unchanged if u is "unknown" and is u otherwise; a turn without a triage outcome
\* leaves urgency_level unchanged.
C28_UrgencyFollowsTriage ==
    (TurnCall /\ ~GateBlocked)
    => SessionNow.urgency_level
           = IF TriageOutcomeProduced /\ TriageUrgency # "unknown" THEN TriageUrgency
             ELSE last_call.before.urgency_level

\* A session of known urgency has had a turn whose triage outcome had urgency "unknown".
C28_Witness ==
    /\ TurnCall
    /\ ~GateBlocked
    /\ TriageOutcomeProduced
    /\ last_call.modes["triage"] = "ok"
    /\ TriageUrgency = "unknown"
    /\ last_call.before.urgency_level = "critical"
    /\ SessionNow.urgency_level = "critical"

\* _combine_agent_responses has returned.
Merged == ~Has(merge_out, "absent")

\* C29: the metadata of the merged reply holds under one key, all_agents, exactly one
\* entry per responder that has an outcome, and each entry equals the metadata that
\* responder produced: none is missing and none is altered.
C29_AllMetadataKept ==
    Merged
    => /\ DOMAIN merge_out.final_response.metadata.all_agents
              = { metadata_key(agent) : agent \in DOMAIN merge_in }
       /\ \A agent \in DOMAIN merge_in :
              merge_out.final_response.metadata.all_agents[metadata_key(agent)]
                  = merge_in[agent].metadata

\* C30: _combine_agent_responses does not modify its inputs: after it, every outcome in
\* agent_responses (message, confidence, urgency, metadata) is what the responder
\* returned.
C30_MergeKeepsInputs == Merged => merge_out.agent_responses = merge_in

\* The records of earlier are still there, in place, with their turn and user_message.
KeepsRecords(earlier, later) ==
    /\ Len(earlier) <= Len(later)
    /\ \A i \in 1..Len(earlier) :
           /\ later[i].turn = earlier[i].turn
           /\ later[i].user_message = earlier[i].user_message

\* The last call returned the merged reply of its responders.
MergedReplyReturned ==
    TurnCall /\ ~GateBlocked /\ result.exc = NoExc /\ result.value.agent_type \in AgentNames

\* C31: conversation_history is append-only: no call removes or reorders records or
\* changes the turn or the user_message of a record (the history a call found is kept in
\* the history it leaves), the i-th record has turn i, and
\* after a process_message call that returned a merged reply the last record's
\* agent_response and agent_type are that reply's message and agent type.
C31_HistoryAppendOnly ==
    /\ TurnCall
       => KeepsRecords(last_call.before.conversation_history,
                       SessionNow.conversation_history)
    /\ \A session_id \in DOMAIN active_sessions :
           \A i \in 1..Len(active_sessions[session_id].conversation_history) :
               active_sessions[session_id].conversation_history[i].turn = i
    /\ MergedReplyReturned
       => /\ Last(SessionNow.conversation_history).agent_response = result.value.message
          /\ Last(SessionNow.conversation_history).agent_type = result.value.agent_type
          /\ Last(SessionNow.conversation_history).user_message = last_call.message

\* A second turn has returned a merged reply, the record of the first turn still in
\* front of its own.
C31_Witness ==
    /\ MergedReplyReturned
    /\ Len(SessionNow.conversation_history) = 2
    /\ SessionNow.conversation_history[1].user_message
           # SessionNow.conversation_history[2].user_message
    /\ last_call.before.conversation_history[1] = SessionNow.conversation_history[1]

\* A process_message call that has been made and has not returned yet.
Pending(task_id) == tasks[task_id] # NoTask

MismatchRequest == last_call.op = "send_message"

\* C33: send_message with a body session_id different from the path session_id is
\* answered with status 400 and the orchestrator is not invoked.
C33_MismatchIs400 == MismatchRequest => StatusCode = 400

\* The last call got past the safety check and ended in the except clause of
\* process_message, which answered with the technical-difficulties reply.
UnexpectedFailure ==
    /\ TurnCall
    /\ ~GateBlocked
    /\ result.exc = NoExc
    /\ result.value.agent_type = "system"

\* C34: in every state, for every live session, turn_number, the length of
\* conversation_history and the length of agent_activations are equal, also after a turn
\* that ended in the except clause of process_message.
C34_CountersAgree ==
    \A session_id \in DOMAIN active_sessions :
        /\ active_sessions[session_id].turn_number
               = Len(active_sessions[session_id].conversation_history)
        /\ active_sessions[session_id].turn_number
               = Len(active_sessions[session_id].agent_activations)

\* A turn that was counted and recorded has ended in the except clause.
C34_Witness ==
    /\ UnexpectedFailure
    /\ SessionNow.turn_number = last_call.before.turn_number + 1
    /\ Len(SessionNow.agent_activations) = SessionNow.turn_number
    /\ Len(SessionNow.conversation_history) = SessionNow.turn_number
    /\ Last(SessionNow.conversation_history).agent_type # result.value.agent_type

\* C35: no operation adds to questions_asked: in every state every live session has
\* questions_asked empty and triage_complete false and is not ready to dispatch, and in
\* every turn that the safety check lets through the triage responder's should_activate
\* holds, so the triage responder is selected and runs and the default selection rule is
\* not the one that selects.
C35_TriageNeverCompletes ==
    /\ \A session_id \in DOMAIN active_sessions :
           /\ active_sessions[session_id].questions_asked = {}
           /\ ~active_sessions[session_id].triage_complete
           /\ ~ready_to_dispatch(build_context(active_sessions[session_id], <<>>))
    /\ (TurnCall /\ ~GateBlocked)
       => /\ triage_should_activate(SnapshotOfTurn)
          /\ "triage" \in SelectedNow
          /\ "triage" \in DOMAIN last_call.modes
          /\ ~is_triage_complete(SnapshotOfTurn)

\* The second turn of a session that has an address, a known urgency and a known
\* emergency type (all that dispatch needs but triage_complete) selected triage again.
C35_Witness ==
    /\ TurnCall
    /\ ~GateBlocked
    /\ SessionNow.turn_number = 2
    /\ last_call.before.address # NoneVal
    /\ last_call.before.urgency_level # "unknown"
    /\ last_call.before.emergency_type # "unknown"
    /\ "triage" \in SelectedNow

\* The last call found its session with turn_number at max_conversation_turns.
CalledAtTurnLimit ==
    TurnCall /\ last_call.before.turn_number = max_conversation_turns

\* C36: turn_number never exceeds max_conversation_turns, also when process_message
\* calls on one session are in flight together; every process_message call that finds
\* turn_number at max_conversation_turns is stopped by the safety check (no turn is
\* started, no responder runs) and leaves turn_number and conversation_history as they
\* were, so from then on they never change.
C36_TurnLimitHolds ==
    /\ \A session_id \in DOMAIN active_sessions :
           active_sessions[session_id].turn_number <= max_conversation_turns
    /\ CalledAtTurnLimit
       => /\ GateBlocked
          /\ last_call.modes = NoModes
          /\ SessionNow.turn_number = max_conversation_turns
          /\ SessionNow.conversation_history = last_call.before.conversation_history
          /\ SessionNow.agent_activations = last_call.before.agent_activations

\* Of two calls in flight together on a session at the turn limit, one has been
\* stopped and the other is still pending.
C36_Witness ==
    /\ CalledAtTurnLimit
    /\ GateBlocked
    /\ SessionNow.loop_breaker_active
    /\ \E task_id \in TaskIds :
           /\ Pending(task_id)
           /\ tasks[task_id].session_id = last_call.session_id
           /\ tasks[task_id].overlaps

\* The metadata of the outcome the triage responder produced in the turn of the last call.
TriageMetadata ==
    triage_process_message(last_call.message, SnapshotOfTurn,
                           last_call.modes["triage"]).metadata

\* C37: once emergency_type has a value other than "unknown", a turn that the safety
\* check lets through and whose triage outcome carries emergency_type "unknown" leaves
\* the session's emergency_type as it was.
C37_EmergencyTypeKept ==
    (/\ TurnCall
     /\ ~GateBlocked
     /\ last_call.before.emergency_type # "unknown"
     /\ TriageOutcomeProduced
     /\ Has(TriageMetadata, "emergency_type")
     /\ TriageMetadata.emergency_type = "unknown")
    => SessionNow.emergency_type = last_call.before.emergency_type

\* part occurs in text as a run of consecutive pieces.
ContainsText(text, part) ==
    \E i \in 0..(Len(text) - Len(part)) : SubSeq(text, i + 1, i + Len(part)) = part

\* The message texts the triage or guidance responder may have produced in the turn of
\* the last call.
OutcomeTexts(agent_name) ==
    IF last_call.modes[agent_name] = "raise"
    THEN { ErrorPlaceholder(agent_name).message }
    ELSE IF agent_name = "triage"
    THEN { triage_process_message(last_call.message, SnapshotOfTurn,
                                  last_call.modes[agent_name]).message }
    ELSE { guidance_process_message(last_call.message, SnapshotOfTurn, guidance_needed,
                                    last_call.modes[agent_name]).message :
               guidance_needed \in determine_guidance_needed(SnapshotOfTurn) }

\* The last call was a turn that the safety check let through on a session whose
\* urgency_level was critical.
CriticalTurn ==
    TurnCall /\ ~GateBlocked /\ last_call.before.urgency_level = "critical"

\* C38: in every turn that the safety check lets through and that starts with the
\* session's urgency_level critical, the dispatch responder is selected and the reply has
\* agent type dispatch; the message texts of the triage and guidance responders of that
\* turn are not part of the reply.
C38_CriticalReplyIsDispatch ==
    CriticalTurn
    => /\ DispatchSelected
       /\ "dispatch" \in SelectedNow
       /\ result.exc = NoExc
       /\ result.value.agent_type = "dispatch"
       /\ \A agent_name \in {"triage", "guidance"} \cap DOMAIN last_call.modes :
              \A text \in OutcomeTexts(agent_name) :
                  ~ContainsText(result.value.message, text)


====
